---- MODULE Spec2Model ----
(***************************************************************************)
(* A model of the WebGLMath vector / matrix kernel (Vec1..Vec4, Mat4).     *)
(*                                                                         *)
(* Numbers. A JavaScript number is modelled as an exact rational <<n, d>>  *)
(* in lowest terms with d > 0; d = 0 encodes the non-finite doubles:       *)
(* <<0,0>> is NaN, <<1,0>> is +Infinity and <<-1,0>> is -Infinity.         *)
(* Rounding to float32 on a store and the sign of zero are not modelled.   *)
(*                                                                         *)
(* JavaScript values. An argument of a method is a record with a field k:  *)
(*   "undefined", "number" (field v), "object" (field f, the named         *)
(*   properties that exist), "Array" (field e, the elements) or "Mat4"     *)
(*   (field storage).                                                      *)
(***************************************************************************)
EXTENDS Integers, Sequences, FiniteSets, TLC

VARIABLES
    cls,    \* the arity N of the program's vectors a, b, c (instances of VecN)
    a,      \* storage of vector a
    b,      \* storage of vector b
    c,      \* storage of vector c
    mat,    \* storage of the Mat4 m (column-major, 16 slots; slot k is mat[k+1])
    last,   \* the call that produced the current state: [op |-> ..., args |-> ...]
    steps   \* number of calls made since construction

vars == <<cls, a, b, c, mat, last, steps>>

----------------------------------------------------------------------------
(* Exact arithmetic on the number representation.                          *)

Abs(i) == IF i < 0 THEN -i ELSE i

Sgn(i) == IF i < 0 THEN -1 ELSE IF i > 0 THEN 1 ELSE 0

RECURSIVE Gcd(_, _)
Gcd(i, j) == IF j = 0 THEN i ELSE Gcd(j, i % j)

\* The rational n/d brought to the representation (d may be any integer).
Q(n, d) ==
    IF d = 0 THEN <<Sgn(n), 0>>
    ELSE IF d = 1 THEN <<n, 1>>
    ELSE LET g == Gcd(Abs(n), Abs(d))
             s == IF d < 0 THEN -1 ELSE 1
         IN  <<(s * n) \div g, (s * d) \div g>>

Num(i) == <<i, 1>>

Zero == <<0, 1>>

One == <<1, 1>>

NaN == <<0, 0>>

IsNaN(x) == x[1] = 0 /\ x[2] = 0

IsFinite(x) == x[2] # 0

Neg(x) == <<-x[1], x[2]>>

\* x + y of IEEE arithmetic: Infinity + (-Infinity) and anything with NaN is NaN.
Add(x, y) ==
    IF x[2] = 1 /\ y[2] = 1 THEN <<x[1] + y[1], 1>>
    ELSE IF IsNaN(x) \/ IsNaN(y) THEN NaN
    ELSE IF x[2] = 0 /\ y[2] = 0 THEN (IF x[1] = y[1] THEN x ELSE NaN)
    ELSE IF x[2] = 0 THEN x
    ELSE IF y[2] = 0 THEN y
    ELSE Q(x[1] * y[2] + y[1] * x[2], x[2] * y[2])

Sub(x, y) == Add(x, Neg(y))

\* x * y: Infinity * 0 is NaN.
Mul(x, y) ==
    IF x[2] = 1 /\ y[2] = 1 THEN <<x[1] * y[1], 1>>
    ELSE Q(x[1] * y[1], x[2] * y[2])

\* x / y: a non-zero number over 0 is an infinity, 0/0 and Infinity/Infinity are NaN.
Div(x, y) ==
    IF IsNaN(x) \/ IsNaN(y) THEN NaN
    ELSE IF y[1] < 0 THEN Q(-(x[1] * y[2]), -(x[2] * y[1]))
    ELSE Q(x[1] * y[2], x[2] * y[1])

\* x < y and x > y of IEEE arithmetic (false when either is NaN).
Lt(x, y) ==
    /\ ~IsNaN(x)
    /\ ~IsNaN(y)
    /\ IF x[2] = 0 /\ y[2] = 0 THEN x[1] < y[1]
       ELSE IF x[2] = 0 THEN x[1] < 0
       ELSE IF y[2] = 0 THEN y[1] > 0
       ELSE x[1] * y[2] < y[1] * x[2]

Gt(x, y) == Lt(y, x)

----------------------------------------------------------------------------
(* JavaScript values and the operators the library's expressions use.      *)

Undefined == [k |-> "undefined"]

JsNum(q) == [k |-> "number", v |-> q]

\* An object literal or a vector seen through its named properties.
JsObj(f) == [k |-> "object", f |-> f]

JsArray(e) == [k |-> "Array", e |-> e]

JsMat4(s) == [k |-> "Mat4", storage |-> s]

\* Truthiness: undefined, null, 0 and NaN are falsy; every object is truthy.
Truthy(u) ==
    CASE u.k = "undefined" -> FALSE
      [] u.k = "null"      -> FALSE
      [] u.k = "number"    -> u.v[1] # 0
      [] OTHER             -> TRUE

\* l && r and l || r: the value of one of the operands.
JsAnd(l, r) == IF Truthy(l) THEN r ELSE l

JsOr(l, r) == IF Truthy(l) THEN l ELSE r

\* Number(u).valueOf(), and the conversion an arithmetic operator or a
\* store to a Float32Array applies: an object or undefined is NaN, an array
\* converts through its string (empty: 0, one number: that number).
ToNumber(u) ==
    CASE u.k = "number" -> u.v
      [] u.k = "Array"  -> IF Len(u.e) = 0 THEN Zero
                           ELSE IF Len(u.e) = 1 THEN u.e[1] ELSE NaN
      [] OTHER          -> NaN

\* u.p for a property name p in {"x","y","z","w"}: undefined on a number.
Prop(u, p) ==
    IF u.k = "object" /\ p \in DOMAIN u.f THEN u.f[p] ELSE Undefined

\* e - 1 and e + 1.
JsMinus1(e) == JsNum(Sub(ToNumber(e), One))

JsPlus1(e) == JsNum(Add(ToNumber(e), One))

\* The i-th entry of an argument list (arguments[i], i from 0).
Arg(args, i) == IF i < Len(args) THEN args[i + 1] ELSE Undefined

\* The names of the properties a VecN instance has.
Names == <<"x", "y", "z", "w">>

\* A VecN instance as an argument: its accessors x, y, z, w read storage.
VecObj(storage) ==
    JsObj([p \in {Names[i] : i \in 1..Len(storage)} |->
             JsNum(storage[CHOOSE i \in 1..Len(storage) : Names[i] = p])])

\* u && u.p || Number(q).valueOf() || 0 : the operand of set, add, sub, plus,
\* minus, dot, translate and rotate for the component named p.
AddArg(u, q, p) ==
    ToNumber(JsOr(JsOr(JsAnd(u, Prop(u, p)), JsNum(ToNumber(q))), JsNum(Zero)))

\* (u && (u.p - 1) || (Number(q).valueOf() - 1) || 0) + 1 : the fourth
\* component in Vec4's constructor and set.
WArg(u, q, p) ==
    ToNumber(JsPlus1(JsOr(JsOr(JsAnd(u, JsMinus1(Prop(u, p))),
                               JsMinus1(JsNum(ToNumber(q)))), JsNum(Zero))))

\* u && ((u.x - 1) || (Number(u).valueOf() - 1) || 0) + 1 : the factor for
\* the first component in mul, div, times and over.
MulArgX(u) ==
    ToNumber(JsAnd(u, JsPlus1(JsOr(JsOr(JsMinus1(Prop(u, "x")),
                                        JsMinus1(JsNum(ToNumber(u)))), JsNum(Zero)))))

\* u && ((u.p - 1) || (Number(q).valueOf() - 1) || (Number(u).valueOf() - 1) || 0) + 1 :
\* the factor for a later component in mul, div, times and over.
MulArg(u, q, p) ==
    ToNumber(JsAnd(u, JsPlus1(JsOr(JsOr(JsOr(JsMinus1(Prop(u, p)),
                                             JsMinus1(JsNum(ToNumber(q)))),
                                        JsMinus1(JsNum(ToNumber(u)))), JsNum(Zero)))))

\* m.storage[k] of a Mat4 whose storage is the sequence m.
S(m, k) == m[k + 1]

\* new Float32Array(n): n zeros.
Float32Array(n) == [i \in 1..n |-> Zero]

----------------------------------------------------------------------------
(* Variants of methods with one plausible slip each, used to show that the *)
(* properties below depend on the methods they are about.                  *)

\* times taking the factor of y from the x expression.
Vec2_times_xForY(this, args) ==
    LET u == Arg(args, 0)
    IN  <<Mul(this[1], MulArgX(u)), Mul(this[2], MulArgX(u))>>

\* xy01mul leaving out the division by w.
Vec2_xy01mul_undivided(this, m) ==
    LET x == this[1]  y == this[2]
    IN  <<Add(Add(Mul(x, S(m, 0)), Mul(y, S(m, 1))), S(m, 3)),
          Add(Add(Mul(x, S(m, 4)), Mul(y, S(m, 5))), S(m, 7))>>

\* Vec4's set with the fourth component written in the pattern of the other
\* three and 1 as the last alternative.
Vec4_set_plainW(this, args) ==
    LET u == Arg(args, 0)  v == Arg(args, 1)  s == Arg(args, 2)  t == Arg(args, 3)
    IN  <<AddArg(u, u, "x"),
          AddArg(u, v, "y"),
          AddArg(u, s, "z"),
          ToNumber(JsOr(JsOr(JsAnd(u, Prop(u, "w")), JsNum(ToNumber(t))), JsNum(One)))>>

\* The sine with the sign of the angle lost.
MathSin_unsigned(angle) ==
    CASE angle = "0"         -> Zero
      [] angle = "PI/2"      -> Neg(One)
      [] angle = "PI"        -> Zero
      [] angle = "-PI/2"     -> Neg(One)
      [] angle = "atan(4/3)" -> Q(4, 5)

----------------------------------------------------------------------------
(* The vector classes. Every operator takes and returns storages.          *)

(* Vec1: the storage is a sequence of 1 number; storage[i] of the source is this[i+1]. *)

\* new Vec1(u, ...): the storage the constructor fills.
Vec1_new(args) ==
    LET u == Arg(args, 0)
    IN  <<AddArg(u, u, "x")>>

\* clone(): a new storage with the same contents.
Vec1_clone(this) ==
    <<this[1]>>

\* this.set(u, ...).
Vec1_set(this, args) ==
    LET u == Arg(args, 0)
    IN  <<AddArg(u, u, "x")>>

\* this.add(u, ...): the receiver's storage afterwards.
Vec1_add(this, args) ==
    LET u == Arg(args, 0)
    IN  <<Add(this[1], AddArg(u, u, "x"))>>

\* this.plus(u, ...): the storage of the new instance returned.
Vec1_plus(this, args) ==
    LET u == Arg(args, 0)
    IN  <<Add(this[1], AddArg(u, u, "x"))>>

\* this.sub(u, ...): the receiver's storage afterwards.
Vec1_sub(this, args) ==
    LET u == Arg(args, 0)
    IN  <<Sub(this[1], AddArg(u, u, "x"))>>

\* this.minus(u, ...): the storage of the new instance returned.
Vec1_minus(this, args) ==
    LET u == Arg(args, 0)
    IN  <<Sub(this[1], AddArg(u, u, "x"))>>

\* this.mul(u, ...): the receiver's storage afterwards.
Vec1_mul(this, args) ==
    LET u == Arg(args, 0)
    IN  <<Mul(this[1], MulArgX(u))>>

\* this.times(u, ...): the storage of the new instance returned.
Vec1_times(this, args) ==
    LET u == Arg(args, 0)
    IN  <<Mul(this[1], MulArgX(u))>>

\* this.div(u, ...): the receiver's storage afterwards.
Vec1_div(this, args) ==
    LET u == Arg(args, 0)
    IN  <<Div(this[1], MulArgX(u))>>

\* this.over(u, ...): the storage of the new instance returned.
Vec1_over(this, args) ==
    LET u == Arg(args, 0)
    IN  <<Div(this[1], MulArgX(u))>>

\* this.setSum(b, c) with the storages bb and cc of b and c.
Vec1_setSum(this, bb, cc) ==
    <<Add(bb[1], cc[1])>>

\* this.setDifference(b, c) with the storages bb and cc of b and c.
Vec1_setDifference(this, bb, cc) ==
    <<Sub(bb[1], cc[1])>>

\* this.setProduct(b, c) with the storages bb and cc of b and c.
Vec1_setProduct(this, bb, cc) ==
    <<Mul(bb[1], cc[1])>>

\* this.setQuotient(b, c) with the storages bb and cc of b and c.
Vec1_setQuotient(this, bb, cc) ==
    <<Div(bb[1], cc[1])>>

\* this.setScaled(a, s) with the storage aa of a and the number sc.
Vec1_setScaled(this, aa, sc) ==
    <<Mul(aa[1], sc)>>

\* this.dot(u, ...).
Vec1_dot(this, args) ==
    LET u == Arg(args, 0)
    IN  Mul(this[1], AddArg(u, u, "x"))

(* Vec2: the storage is a sequence of 2 numbers; storage[i] of the source is this[i+1]. *)

\* xy01mul: the vector extended by 0, 1, times m, divided by the resulting w.
Vec2_xy01mul(this, m) ==
    LET x == this[1]  y == this[2]
        w == Add(Add(Mul(x, S(m, 12)), Mul(y, S(m, 13))), S(m, 15))
    IN  <<Div(Add(Add(Mul(x, S(m, 0)), Mul(y, S(m, 1))), S(m, 3)), w),
          Div(Add(Add(Mul(x, S(m, 4)), Mul(y, S(m, 5))), S(m, 7)), w)>>

\* setxy01Transformed: the vector extended by 0, 1, times m, divided by the resulting w.
Vec2_setxy01Transformed(this, vv, m) ==
    LET x == vv[1]  y == vv[2]
        w == Add(Add(Mul(x, S(m, 12)), Mul(y, S(m, 13))), S(m, 15))
    IN  <<Div(Add(Add(Mul(x, S(m, 0)), Mul(y, S(m, 1))), S(m, 3)), w),
          Div(Add(Add(Mul(x, S(m, 4)), Mul(y, S(m, 5))), S(m, 7)), w)>>

\* xy00mul: the vector extended by zeros, times m.
Vec2_xy00mul(this, m) ==
    LET x == this[1]  y == this[2]
    IN  <<Add(Mul(x, S(m, 0)), Mul(y, S(m, 1))),
          Add(Mul(x, S(m, 4)), Mul(y, S(m, 5)))>>

\* setxy00Transformed: the vector extended by zeros, times m.
Vec2_setxy00Transformed(this, vv, m) ==
    LET x == vv[1]  y == vv[2]
    IN  <<Add(Mul(x, S(m, 0)), Mul(y, S(m, 1))),
          Add(Mul(x, S(m, 4)), Mul(y, S(m, 5)))>>

\* xy01times(m): the storage of the new instance returned.
Vec2_xy01times(this, m) ==
    Vec2_setxy01Transformed(Float32Array(2), this, m)

\* xy00times(m): the storage of the new instance returned.
Vec2_xy00times(this, m) ==
    Vec2_setxy00Transformed(Float32Array(2), this, m)

\* new Vec2(u, ...): the storage the constructor fills.
Vec2_new(args) ==
    LET u == Arg(args, 0)  v == Arg(args, 1)
    IN  <<AddArg(u, u, "x"),
          AddArg(u, v, "y")>>

\* clone(): a new storage with the same contents.
Vec2_clone(this) ==
    <<this[1],
          this[2]>>

\* this.set(u, ...).
Vec2_set(this, args) ==
    LET u == Arg(args, 0)  v == Arg(args, 1)
    IN  <<AddArg(u, u, "x"),
          AddArg(u, v, "y")>>

\* this.add(u, ...): the receiver's storage afterwards.
Vec2_add(this, args) ==
    LET u == Arg(args, 0)  v == Arg(args, 1)
    IN  <<Add(this[1], AddArg(u, u, "x")),
          Add(this[2], AddArg(u, v, "y"))>>

\* this.plus(u, ...): the storage of the new instance returned.
Vec2_plus(this, args) ==
    LET u == Arg(args, 0)  v == Arg(args, 1)
    IN  <<Add(this[1], AddArg(u, u, "x")),
          Add(this[2], AddArg(u, v, "y"))>>

\* this.sub(u, ...): the receiver's storage afterwards.
Vec2_sub(this, args) ==
    LET u == Arg(args, 0)  v == Arg(args, 1)
    IN  <<Sub(this[1], AddArg(u, u, "x")),
          Sub(this[2], AddArg(u, v, "y"))>>

\* this.minus(u, ...): the storage of the new instance returned.
Vec2_minus(this, args) ==
    LET u == Arg(args, 0)  v == Arg(args, 1)
    IN  <<Sub(this[1], AddArg(u, u, "x")),
          Sub(this[2], AddArg(u, v, "y"))>>

\* this.mul(u, ...): the receiver's storage afterwards.
Vec2_mul(this, args) ==
    LET u == Arg(args, 0)  v == Arg(args, 1)
    IN  <<Mul(this[1], MulArgX(u)),
          Mul(this[2], MulArg(u, v, "y"))>>

\* this.times(u, ...): the storage of the new instance returned.
Vec2_times(this, args) ==
    LET u == Arg(args, 0)  v == Arg(args, 1)
    IN  <<Mul(this[1], MulArgX(u)),
          Mul(this[2], MulArg(u, v, "y"))>>

\* this.div(u, ...): the receiver's storage afterwards.
Vec2_div(this, args) ==
    LET u == Arg(args, 0)  v == Arg(args, 1)
    IN  <<Div(this[1], MulArgX(u)),
          Div(this[2], MulArg(u, v, "y"))>>

\* this.over(u, ...): the storage of the new instance returned.
Vec2_over(this, args) ==
    LET u == Arg(args, 0)  v == Arg(args, 1)
    IN  <<Div(this[1], MulArgX(u)),
          Div(this[2], MulArg(u, v, "y"))>>

\* this.setSum(b, c) with the storages bb and cc of b and c.
Vec2_setSum(this, bb, cc) ==
    <<Add(bb[1], cc[1]),
          Add(bb[2], cc[2])>>

\* this.setDifference(b, c) with the storages bb and cc of b and c.
Vec2_setDifference(this, bb, cc) ==
    <<Sub(bb[1], cc[1]),
          Sub(bb[2], cc[2])>>

\* this.setProduct(b, c) with the storages bb and cc of b and c.
Vec2_setProduct(this, bb, cc) ==
    <<Mul(bb[1], cc[1]),
          Mul(bb[2], cc[2])>>

\* this.setQuotient(b, c) with the storages bb and cc of b and c.
Vec2_setQuotient(this, bb, cc) ==
    <<Div(bb[1], cc[1]),
          Div(bb[2], cc[2])>>

\* this.setScaled(a, s) with the storage aa of a and the number sc.
Vec2_setScaled(this, aa, sc) ==
    <<Mul(aa[1], sc),
          Mul(aa[2], sc)>>

\* this.dot(u, ...).
Vec2_dot(this, args) ==
    LET u == Arg(args, 0)  v == Arg(args, 1)
    IN  Add(Mul(this[1], AddArg(u, u, "x")),
            Mul(this[2], AddArg(u, v, "y")))

(* Vec3: the storage is a sequence of 3 numbers; storage[i] of the source is this[i+1]. *)

\* xyz1mul: the vector extended by 1, times m, divided by the resulting w.
Vec3_xyz1mul(this, m) ==
    LET x == this[1]  y == this[2]  z == this[3]
        w == Add(Add(Add(Mul(x, S(m, 12)), Mul(y, S(m, 13))), Mul(z, S(m, 14))), S(m, 15))
    IN  <<Div(Add(Add(Add(Mul(x, S(m, 0)), Mul(y, S(m, 1))), Mul(z, S(m, 2))), S(m, 3)), w),
          Div(Add(Add(Add(Mul(x, S(m, 4)), Mul(y, S(m, 5))), Mul(z, S(m, 6))), S(m, 7)), w),
          Div(Add(Add(Add(Mul(x, S(m, 8)), Mul(y, S(m, 9))), Mul(z, S(m, 10))), S(m, 11)), w)>>

\* setxyz1Transformed: the vector extended by 1, times m, divided by the resulting w.
Vec3_setxyz1Transformed(this, vv, m) ==
    LET x == vv[1]  y == vv[2]  z == vv[3]
        w == Add(Add(Add(Mul(x, S(m, 12)), Mul(y, S(m, 13))), Mul(z, S(m, 14))), S(m, 15))
    IN  <<Div(Add(Add(Add(Mul(x, S(m, 0)), Mul(y, S(m, 1))), Mul(z, S(m, 2))), S(m, 3)), w),
          Div(Add(Add(Add(Mul(x, S(m, 4)), Mul(y, S(m, 5))), Mul(z, S(m, 6))), S(m, 7)), w),
          Div(Add(Add(Add(Mul(x, S(m, 8)), Mul(y, S(m, 9))), Mul(z, S(m, 10))), S(m, 11)), w)>>

\* xyz0mul: the vector extended by zeros, times m.
Vec3_xyz0mul(this, m) ==
    LET x == this[1]  y == this[2]  z == this[3]
    IN  <<Add(Add(Mul(x, S(m, 0)), Mul(y, S(m, 1))), Mul(z, S(m, 2))),
          Add(Add(Mul(x, S(m, 4)), Mul(y, S(m, 5))), Mul(z, S(m, 6))),
          Add(Add(Mul(x, S(m, 8)), Mul(y, S(m, 9))), Mul(z, S(m, 10)))>>

\* setxyz0Transformed: the vector extended by zeros, times m.
Vec3_setxyz0Transformed(this, vv, m) ==
    LET x == vv[1]  y == vv[2]  z == vv[3]
    IN  <<Add(Add(Mul(x, S(m, 0)), Mul(y, S(m, 1))), Mul(z, S(m, 2))),
          Add(Add(Mul(x, S(m, 4)), Mul(y, S(m, 5))), Mul(z, S(m, 6))),
          Add(Add(Mul(x, S(m, 8)), Mul(y, S(m, 9))), Mul(z, S(m, 10)))>>

\* xyz1times(m): the storage of the new instance returned.
Vec3_xyz1times(this, m) ==
    Vec3_setxyz1Transformed(Float32Array(3), this, m)

\* xyz0times(m): the storage of the new instance returned.
Vec3_xyz0times(this, m) ==
    Vec3_setxyz0Transformed(Float32Array(3), this, m)

\* new Vec3(u, ...): the storage the constructor fills.
Vec3_new(args) ==
    LET u == Arg(args, 0)  v == Arg(args, 1)  s == Arg(args, 2)
    IN  <<AddArg(u, u, "x"),
          AddArg(u, v, "y"),
          AddArg(u, s, "z")>>

\* clone(): a new storage with the same contents.
Vec3_clone(this) ==
    <<this[1],
          this[2],
          this[3]>>

\* this.set(u, ...).
Vec3_set(this, args) ==
    LET u == Arg(args, 0)  v == Arg(args, 1)  s == Arg(args, 2)
    IN  <<AddArg(u, u, "x"),
          AddArg(u, v, "y"),
          AddArg(u, s, "z")>>

\* this.add(u, ...): the receiver's storage afterwards.
Vec3_add(this, args) ==
    LET u == Arg(args, 0)  v == Arg(args, 1)  s == Arg(args, 2)
    IN  <<Add(this[1], AddArg(u, u, "x")),
          Add(this[2], AddArg(u, v, "y")),
          Add(this[3], AddArg(u, s, "z"))>>

\* this.plus(u, ...): the storage of the new instance returned.
Vec3_plus(this, args) ==
    LET u == Arg(args, 0)  v == Arg(args, 1)  s == Arg(args, 2)
    IN  <<Add(this[1], AddArg(u, u, "x")),
          Add(this[2], AddArg(u, v, "y")),
          Add(this[3], AddArg(u, s, "z"))>>

\* this.sub(u, ...): the receiver's storage afterwards.
Vec3_sub(this, args) ==
    LET u == Arg(args, 0)  v == Arg(args, 1)  s == Arg(args, 2)
    IN  <<Sub(this[1], AddArg(u, u, "x")),
          Sub(this[2], AddArg(u, v, "y")),
          Sub(this[3], AddArg(u, s, "z"))>>

\* this.minus(u, ...): the storage of the new instance returned.
Vec3_minus(this, args) ==
    LET u == Arg(args, 0)  v == Arg(args, 1)  s == Arg(args, 2)
    IN  <<Sub(this[1], AddArg(u, u, "x")),
          Sub(this[2], AddArg(u, v, "y")),
          Sub(this[3], AddArg(u, s, "z"))>>

\* this.mul(u, ...): the receiver's storage afterwards.
Vec3_mul(this, args) ==
    LET u == Arg(args, 0)  v == Arg(args, 1)  s == Arg(args, 2)
    IN  <<Mul(this[1], MulArgX(u)),
          Mul(this[2], MulArg(u, v, "y")),
          Mul(this[3], MulArg(u, s, "z"))>>

\* this.times(u, ...): the storage of the new instance returned.
Vec3_times(this, args) ==
    LET u == Arg(args, 0)  v == Arg(args, 1)  s == Arg(args, 2)
    IN  <<Mul(this[1], MulArgX(u)),
          Mul(this[2], MulArg(u, v, "y")),
          Mul(this[3], MulArg(u, s, "z"))>>

\* this.div(u, ...): the receiver's storage afterwards.
Vec3_div(this, args) ==
    LET u == Arg(args, 0)  v == Arg(args, 1)  s == Arg(args, 2)
    IN  <<Div(this[1], MulArgX(u)),
          Div(this[2], MulArg(u, v, "y")),
          Div(this[3], MulArg(u, s, "z"))>>

\* this.over(u, ...): the storage of the new instance returned.
Vec3_over(this, args) ==
    LET u == Arg(args, 0)  v == Arg(args, 1)  s == Arg(args, 2)
    IN  <<Div(this[1], MulArgX(u)),
          Div(this[2], MulArg(u, v, "y")),
          Div(this[3], MulArg(u, s, "z"))>>

\* this.setSum(b, c) with the storages bb and cc of b and c.
Vec3_setSum(this, bb, cc) ==
    <<Add(bb[1], cc[1]),
          Add(bb[2], cc[2]),
          Add(bb[3], cc[3])>>

\* this.setDifference(b, c) with the storages bb and cc of b and c.
Vec3_setDifference(this, bb, cc) ==
    <<Sub(bb[1], cc[1]),
          Sub(bb[2], cc[2]),
          Sub(bb[3], cc[3])>>

\* this.setProduct(b, c) with the storages bb and cc of b and c.
Vec3_setProduct(this, bb, cc) ==
    <<Mul(bb[1], cc[1]),
          Mul(bb[2], cc[2]),
          Mul(bb[3], cc[3])>>

\* this.setQuotient(b, c) with the storages bb and cc of b and c.
Vec3_setQuotient(this, bb, cc) ==
    <<Div(bb[1], cc[1]),
          Div(bb[2], cc[2]),
          Div(bb[3], cc[3])>>

\* this.setScaled(a, s) with the storage aa of a and the number sc.
Vec3_setScaled(this, aa, sc) ==
    <<Mul(aa[1], sc),
          Mul(aa[2], sc),
          Mul(aa[3], sc)>>

\* this.dot(u, ...).
Vec3_dot(this, args) ==
    LET u == Arg(args, 0)  v == Arg(args, 1)  s == Arg(args, 2)
    IN  Add(Add(Mul(this[1], AddArg(u, u, "x")),
            Mul(this[2], AddArg(u, v, "y"))),
            Mul(this[3], AddArg(u, s, "z")))

(* Vec4: the storage is a sequence of 4 numbers; storage[i] of the source is this[i+1]. *)

\* this.transform(m): the row vector times the matrix with storage m.
Vec4_transform(this, m) ==
    LET x == this[1]  y == this[2]  z == this[3]  w == this[4]
    IN  <<Add(Add(Add(Mul(x, S(m, 0)), Mul(y, S(m, 1))), Mul(z, S(m, 2))), Mul(w, S(m, 3))),
          Add(Add(Add(Mul(x, S(m, 4)), Mul(y, S(m, 5))), Mul(z, S(m, 6))), Mul(w, S(m, 7))),
          Add(Add(Add(Mul(x, S(m, 8)), Mul(y, S(m, 9))), Mul(z, S(m, 10))), Mul(w, S(m, 11))),
          Add(Add(Add(Mul(x, S(m, 12)), Mul(y, S(m, 13))), Mul(z, S(m, 14))), Mul(w, S(m, 15)))>>

\* this.setTransformed(v, m) with the storage vv of v.
Vec4_setTransformed(this, vv, m) ==
    <<Add(Add(Add(Mul(vv[1], S(m, 0)), Mul(vv[2], S(m, 1))), Mul(vv[3], S(m, 2))), Mul(vv[4], S(m, 3))),
          Add(Add(Add(Mul(vv[1], S(m, 4)), Mul(vv[2], S(m, 5))), Mul(vv[3], S(m, 6))), Mul(vv[4], S(m, 7))),
          Add(Add(Add(Mul(vv[1], S(m, 8)), Mul(vv[2], S(m, 9))), Mul(vv[3], S(m, 10))), Mul(vv[4], S(m, 11))),
          Add(Add(Add(Mul(vv[1], S(m, 12)), Mul(vv[2], S(m, 13))), Mul(vv[3], S(m, 14))), Mul(vv[4], S(m, 15)))>>

\* new Vec4(u, ...): the storage the constructor fills.
Vec4_new(args) ==
    LET u == Arg(args, 0)  v == Arg(args, 1)  s == Arg(args, 2)  t == Arg(args, 3)
    IN  <<AddArg(u, u, "x"),
          AddArg(u, v, "y"),
          AddArg(u, s, "z"),
          WArg(u, t, "w")>>

\* clone(): a new storage with the same contents.
Vec4_clone(this) ==
    <<this[1],
          this[2],
          this[3],
          this[4]>>

\* this.set(u, ...).
Vec4_set(this, args) ==
    LET u == Arg(args, 0)  v == Arg(args, 1)  s == Arg(args, 2)  t == Arg(args, 3)
    IN  <<AddArg(u, u, "x"),
          AddArg(u, v, "y"),
          AddArg(u, s, "z"),
          WArg(u, t, "w")>>

\* this.add(u, ...): the receiver's storage afterwards.
Vec4_add(this, args) ==
    LET u == Arg(args, 0)  v == Arg(args, 1)  s == Arg(args, 2)  t == Arg(args, 3)
    IN  <<Add(this[1], AddArg(u, u, "x")),
          Add(this[2], AddArg(u, v, "y")),
          Add(this[3], AddArg(u, s, "z")),
          Add(this[4], AddArg(u, t, "w"))>>

\* this.plus(u, ...): the storage of the new instance returned.
Vec4_plus(this, args) ==
    LET u == Arg(args, 0)  v == Arg(args, 1)  s == Arg(args, 2)  t == Arg(args, 3)
    IN  <<Add(this[1], AddArg(u, u, "x")),
          Add(this[2], AddArg(u, v, "y")),
          Add(this[3], AddArg(u, s, "z")),
          Add(this[4], AddArg(u, t, "w"))>>

\* this.sub(u, ...): the receiver's storage afterwards.
Vec4_sub(this, args) ==
    LET u == Arg(args, 0)  v == Arg(args, 1)  s == Arg(args, 2)  t == Arg(args, 3)
    IN  <<Sub(this[1], AddArg(u, u, "x")),
          Sub(this[2], AddArg(u, v, "y")),
          Sub(this[3], AddArg(u, s, "z")),
          Sub(this[4], AddArg(u, t, "w"))>>

\* this.minus(u, ...): the storage of the new instance returned.
Vec4_minus(this, args) ==
    LET u == Arg(args, 0)  v == Arg(args, 1)  s == Arg(args, 2)  t == Arg(args, 3)
    IN  <<Sub(this[1], AddArg(u, u, "x")),
          Sub(this[2], AddArg(u, v, "y")),
          Sub(this[3], AddArg(u, s, "z")),
          Sub(this[4], AddArg(u, t, "w"))>>

\* this.mul(u, ...): the receiver's storage afterwards.
Vec4_mul(this, args) ==
    IF Arg(args, 0).k = "Mat4" THEN Vec4_transform(this, Arg(args, 0).storage)
    ELSE LET u == Arg(args, 0)  v == Arg(args, 1)  s == Arg(args, 2)  t == Arg(args, 3)
         IN  <<Mul(this[1], MulArgX(u)),
               Mul(this[2], MulArg(u, v, "y")),
               Mul(this[3], MulArg(u, s, "z")),
               Mul(this[4], MulArg(u, t, "w"))>>

\* this.times(u, ...): the storage of the new instance returned.
Vec4_times(this, args) ==
    IF Arg(args, 0).k = "Mat4" THEN Vec4_setTransformed(Float32Array(4), this, Arg(args, 0).storage)
    ELSE LET u == Arg(args, 0)  v == Arg(args, 1)  s == Arg(args, 2)  t == Arg(args, 3)
         IN  <<Mul(this[1], MulArgX(u)),
               Mul(this[2], MulArg(u, v, "y")),
               Mul(this[3], MulArg(u, s, "z")),
               Mul(this[4], MulArg(u, t, "w"))>>

\* this.div(u, ...): the receiver's storage afterwards.
Vec4_div(this, args) ==
    LET u == Arg(args, 0)  v == Arg(args, 1)  s == Arg(args, 2)  t == Arg(args, 3)
    IN  <<Div(this[1], MulArgX(u)),
          Div(this[2], MulArg(u, v, "y")),
          Div(this[3], MulArg(u, s, "z")),
          Div(this[4], MulArg(u, t, "w"))>>

\* this.over(u, ...): the storage of the new instance returned.
Vec4_over(this, args) ==
    LET u == Arg(args, 0)  v == Arg(args, 1)  s == Arg(args, 2)  t == Arg(args, 3)
    IN  <<Div(this[1], MulArgX(u)),
          Div(this[2], MulArg(u, v, "y")),
          Div(this[3], MulArg(u, s, "z")),
          Div(this[4], MulArg(u, t, "w"))>>

\* this.setSum(b, c) with the storages bb and cc of b and c.
Vec4_setSum(this, bb, cc) ==
    <<Add(bb[1], cc[1]),
          Add(bb[2], cc[2]),
          Add(bb[3], cc[3]),
          Add(bb[4], cc[4])>>

\* this.setDifference(b, c) with the storages bb and cc of b and c.
Vec4_setDifference(this, bb, cc) ==
    <<Sub(bb[1], cc[1]),
          Sub(bb[2], cc[2]),
          Sub(bb[3], cc[3]),
          Sub(bb[4], cc[4])>>

\* this.setProduct(b, c) with the storages bb and cc of b and c.
Vec4_setProduct(this, bb, cc) ==
    <<Mul(bb[1], cc[1]),
          Mul(bb[2], cc[2]),
          Mul(bb[3], cc[3]),
          Mul(bb[4], cc[4])>>

\* this.setQuotient(b, c) with the storages bb and cc of b and c.
Vec4_setQuotient(this, bb, cc) ==
    <<Div(bb[1], cc[1]),
          Div(bb[2], cc[2]),
          Div(bb[3], cc[3]),
          Div(bb[4], cc[4])>>

\* this.setScaled(a, s) with the storage aa of a and the number sc.
Vec4_setScaled(this, aa, sc) ==
    <<Mul(aa[1], sc),
          Mul(aa[2], sc),
          Mul(aa[3], sc),
          Mul(aa[4], sc)>>

\* this.dot(u, ...).
Vec4_dot(this, args) ==
    LET u == Arg(args, 0)  v == Arg(args, 1)  s == Arg(args, 2)  t == Arg(args, 3)
    IN  Add(Add(Add(Mul(this[1], AddArg(u, u, "x")),
            Mul(this[2], AddArg(u, v, "y"))),
            Mul(this[3], AddArg(u, s, "z"))),
            Mul(this[4], AddArg(u, t, "w")))

----------------------------------------------------------------------------
(* Mat4. The storage is a sequence of 16 numbers, column-major: storage[k] *)
(* of the source is this[k+1].                                             *)

\* The getter of the indexed property k = i + 4*j: storage[j + 4*i].
Mat4_get(this, k) == S(this, (k \div 4) + 4 * (k % 4))

\* The setter of the indexed property k: the storage after this[k] = value.
Mat4_put(this, k, value) ==
    [this EXCEPT ![(k \div 4) + 4 * (k % 4) + 1] = ToNumber(value)]

\* m[k] for an argument m: an array element, a Mat4's indexed property, or
\* undefined on anything else.
Index(m, k) ==
    CASE m.k = "Array" -> IF k < Len(m.e) THEN JsNum(m.e[k + 1]) ELSE Undefined
      [] m.k = "Mat4"  -> JsNum(Mat4_get(m.storage, k))
      [] OTHER         -> Undefined

\* (m && (m[k]-1) || (arguments[k]-1) || 0) + 1 : a diagonal element in set.
SetDiag(m, args, k) ==
    ToNumber(JsPlus1(JsOr(JsOr(JsAnd(m, JsMinus1(Index(m, k))),
                               JsMinus1(Arg(args, k))), JsNum(Zero))))

\* m && m[k] || arguments[k] || 0 : an off-diagonal element in set.
SetOff(m, args, k) ==
    ToNumber(JsOr(JsOr(JsAnd(m, Index(m, k)), Arg(args, k)), JsNum(Zero)))

\* this.set(m, ...): element k of the row-major input goes to the slot the
\* source's statement names.
Mat4_set(this, args) ==
    LET m == Arg(args, 0)
    IN  <<SetDiag(m, args, 0),
          SetOff(m, args, 4),
          SetOff(m, args, 8),
          SetOff(m, args, 12),
          SetOff(m, args, 1),
          SetDiag(m, args, 5),
          SetOff(m, args, 9),
          SetOff(m, args, 13),
          SetOff(m, args, 2),
          SetOff(m, args, 6),
          SetDiag(m, args, 10),
          SetOff(m, args, 14),
          SetOff(m, args, 3),
          SetOff(m, args, 7),
          SetOff(m, args, 11),
          SetDiag(m, args, 15)>>

\* new Mat4(m, ...): the constructor declares one parameter and passes only
\* that one on to set.
Mat4_new(args) == Mat4_set(Float32Array(16), <<Arg(args, 0)>>)

\* clone(): a new storage with the same contents.
Mat4_clone(this) ==
    <<this[1], this[2], this[3], this[4], this[5], this[6], this[7], this[8],
      this[9], this[10], this[11], this[12], this[13], this[14], this[15], this[16]>>

\* (u && (u.p - 1) || (Number(q).valueOf() - 1) || (Number(u).valueOf() - 1) || 0) + 1 :
\* the factors sy and sz of scale.
ScaleArg(u, q, p) ==
    ToNumber(JsPlus1(JsOr(JsOr(JsOr(JsAnd(u, JsMinus1(Prop(u, p))),
                                    JsMinus1(JsNum(ToNumber(q)))),
                               JsMinus1(JsNum(ToNumber(u)))), JsNum(Zero))))

\* The multiple of 216 below the root of i: 216 * 214 is the largest
\* multiple whose square and whose successor's square fit 32 bits.
CoarseRoot(i) ==
    CHOOSE k \in 0..214 :
        (216 * k) * (216 * k) <= i /\ (k = 214 \/ (216 * (k + 1)) * (216 * (k + 1)) > i)

\* The largest integer whose square is at most i; 46340 is the root of the
\* largest square of a 32-bit integer.
IntegerRoot(i) ==
    CHOOSE r \in 216 * CoarseRoot(i) .. 216 * CoarseRoot(i) + 215 :
        r * r <= i /\ (r = 46340 \/ (r + 1) * (r + 1) > i)

\* Math.sqrt: exact on the square of a rational, and rounded down to an
\* integer elsewhere; NaN for a negative number.
MathSqrt(x) ==
    IF x[2] = 0 THEN (IF x[1] > 0 THEN x ELSE NaN)
    ELSE IF x[1] < 0 THEN NaN
    ELSE LET root == IntegerRoot(x[1] * x[2])
         IN  IF root * root = x[1] * x[2] THEN Q(root, x[2])
             ELSE Num(IntegerRoot(x[1] \div x[2]))

\* Math.cos and Math.sin on the angles the model uses, named by their
\* expression in the program; the quarter turns have cosine exactly 0.
MathCos(angle) ==
    CASE angle = "0"         -> One
      [] angle = "PI/2"      -> Zero
      [] angle = "PI"        -> Neg(One)
      [] angle = "-PI/2"     -> Zero
      [] angle = "atan(4/3)" -> Q(3, 5)

MathSin(angle) ==
    CASE angle = "0"         -> Zero
      [] angle = "PI/2"      -> One
      [] angle = "PI"        -> Zero
      [] angle = "-PI/2"     -> Neg(One)
      [] angle = "atan(4/3)" -> Q(4, 5)

\* The axis rotate uses: z when the given one is (nearly) zero, the given one
\* normalised when its squared length is outside 0.999 .. 1.001.
RotationAxis(args) ==
    LET u == Arg(args, 0)  v == Arg(args, 1)  s == Arg(args, 2)
        x == AddArg(u, u, "x")
        y == AddArg(u, v, "y")
        z == AddArg(u, s, "z")
        axisLength2 == Add(Add(Mul(x, x), Mul(y, y)), Mul(z, z))
        axisLength == MathSqrt(axisLength2)
    IN  IF Lt(axisLength2, Q(1, 10000)) THEN <<Zero, Zero, One>>
        ELSE IF Lt(axisLength2, Q(999, 1000)) \/ Gt(axisLength2, Q(1001, 1000))
             THEN <<Div(x, axisLength), Div(y, axisLength), Div(z, axisLength)>>
             ELSE <<x, y, z>>

\* this.premul(m): the storage afterwards, m * this in the row-major view.
Mat4_premul(this, m) ==
    LET n00 == S(this, 0)
        n01 == S(this, 4)
        n02 == S(this, 8)
        n03 == S(this, 12)
        n10 == S(this, 1)
        n11 == S(this, 5)
        n12 == S(this, 9)
        n13 == S(this, 13)
        n20 == S(this, 2)
        n21 == S(this, 6)
        n22 == S(this, 10)
        n23 == S(this, 14)
        n30 == S(this, 3)
        n31 == S(this, 7)
        n32 == S(this, 11)
        n33 == S(this, 15)
        m00 == S(m, 0)
        m01 == S(m, 4)
        m02 == S(m, 8)
        m03 == S(m, 12)
        m10 == S(m, 1)
        m11 == S(m, 5)
        m12 == S(m, 9)
        m13 == S(m, 13)
        m20 == S(m, 2)
        m21 == S(m, 6)
        m22 == S(m, 10)
        m23 == S(m, 14)
        m30 == S(m, 3)
        m31 == S(m, 7)
        m32 == S(m, 11)
        m33 == S(m, 15)
    IN  <<Add(Add(Add(Mul(m00, n00), Mul(m01, n10)), Mul(m02, n20)), Mul(m03, n30)),
          Add(Add(Add(Mul(m10, n00), Mul(m11, n10)), Mul(m12, n20)), Mul(m13, n30)),
          Add(Add(Add(Mul(m20, n00), Mul(m21, n10)), Mul(m22, n20)), Mul(m23, n30)),
          Add(Add(Add(Mul(m30, n00), Mul(m31, n10)), Mul(m32, n20)), Mul(m33, n30)),
          Add(Add(Add(Mul(m00, n01), Mul(m01, n11)), Mul(m02, n21)), Mul(m03, n31)),
          Add(Add(Add(Mul(m10, n01), Mul(m11, n11)), Mul(m12, n21)), Mul(m13, n31)),
          Add(Add(Add(Mul(m20, n01), Mul(m21, n11)), Mul(m22, n21)), Mul(m23, n31)),
          Add(Add(Add(Mul(m30, n01), Mul(m31, n11)), Mul(m32, n21)), Mul(m33, n31)),
          Add(Add(Add(Mul(m00, n02), Mul(m01, n12)), Mul(m02, n22)), Mul(m03, n32)),
          Add(Add(Add(Mul(m10, n02), Mul(m11, n12)), Mul(m12, n22)), Mul(m13, n32)),
          Add(Add(Add(Mul(m20, n02), Mul(m21, n12)), Mul(m22, n22)), Mul(m23, n32)),
          Add(Add(Add(Mul(m30, n02), Mul(m31, n12)), Mul(m32, n22)), Mul(m33, n32)),
          Add(Add(Add(Mul(m00, n03), Mul(m01, n13)), Mul(m02, n23)), Mul(m03, n33)),
          Add(Add(Add(Mul(m10, n03), Mul(m11, n13)), Mul(m12, n23)), Mul(m13, n33)),
          Add(Add(Add(Mul(m20, n03), Mul(m21, n13)), Mul(m22, n23)), Mul(m23, n33)),
          Add(Add(Add(Mul(m30, n03), Mul(m31, n13)), Mul(m32, n23)), Mul(m33, n33))>>

\* mul computing the product in the order of premul.
Mat4_mul_asPremul(this, m) == Mat4_premul(this, m)

\* this.mul(m): the storage afterwards, this * m in the row-major view.
Mat4_mul(this, m) ==
    LET m00 == S(this, 0)
        m01 == S(this, 4)
        m02 == S(this, 8)
        m03 == S(this, 12)
        m10 == S(this, 1)
        m11 == S(this, 5)
        m12 == S(this, 9)
        m13 == S(this, 13)
        m20 == S(this, 2)
        m21 == S(this, 6)
        m22 == S(this, 10)
        m23 == S(this, 14)
        m30 == S(this, 3)
        m31 == S(this, 7)
        m32 == S(this, 11)
        m33 == S(this, 15)
        n00 == S(m, 0)
        n01 == S(m, 4)
        n02 == S(m, 8)
        n03 == S(m, 12)
        n10 == S(m, 1)
        n11 == S(m, 5)
        n12 == S(m, 9)
        n13 == S(m, 13)
        n20 == S(m, 2)
        n21 == S(m, 6)
        n22 == S(m, 10)
        n23 == S(m, 14)
        n30 == S(m, 3)
        n31 == S(m, 7)
        n32 == S(m, 11)
        n33 == S(m, 15)
    IN  <<Add(Add(Add(Mul(m00, n00), Mul(m01, n10)), Mul(m02, n20)), Mul(m03, n30)),
          Add(Add(Add(Mul(m10, n00), Mul(m11, n10)), Mul(m12, n20)), Mul(m13, n30)),
          Add(Add(Add(Mul(m20, n00), Mul(m21, n10)), Mul(m22, n20)), Mul(m23, n30)),
          Add(Add(Add(Mul(m30, n00), Mul(m31, n10)), Mul(m32, n20)), Mul(m33, n30)),
          Add(Add(Add(Mul(m00, n01), Mul(m01, n11)), Mul(m02, n21)), Mul(m03, n31)),
          Add(Add(Add(Mul(m10, n01), Mul(m11, n11)), Mul(m12, n21)), Mul(m13, n31)),
          Add(Add(Add(Mul(m20, n01), Mul(m21, n11)), Mul(m22, n21)), Mul(m23, n31)),
          Add(Add(Add(Mul(m30, n01), Mul(m31, n11)), Mul(m32, n21)), Mul(m33, n31)),
          Add(Add(Add(Mul(m00, n02), Mul(m01, n12)), Mul(m02, n22)), Mul(m03, n32)),
          Add(Add(Add(Mul(m10, n02), Mul(m11, n12)), Mul(m12, n22)), Mul(m13, n32)),
          Add(Add(Add(Mul(m20, n02), Mul(m21, n12)), Mul(m22, n22)), Mul(m23, n32)),
          Add(Add(Add(Mul(m30, n02), Mul(m31, n12)), Mul(m32, n22)), Mul(m33, n32)),
          Add(Add(Add(Mul(m00, n03), Mul(m01, n13)), Mul(m02, n23)), Mul(m03, n33)),
          Add(Add(Add(Mul(m10, n03), Mul(m11, n13)), Mul(m12, n23)), Mul(m13, n33)),
          Add(Add(Add(Mul(m20, n03), Mul(m21, n13)), Mul(m22, n23)), Mul(m23, n33)),
          Add(Add(Add(Mul(m30, n03), Mul(m31, n13)), Mul(m32, n23)), Mul(m33, n33))>>

\* this.transpose(): the six swaps across the diagonal.
Mat4_transpose(this) ==
    <<S(this, 0),
      S(this, 4),
      S(this, 8),
      S(this, 12),
      S(this, 1),
      S(this, 5),
      S(this, 9),
      S(this, 13),
      S(this, 2),
      S(this, 6),
      S(this, 10),
      S(this, 14),
      S(this, 3),
      S(this, 7),
      S(this, 11),
      S(this, 15)>>

\* A translation applied from the left: the product of the translation
\* matrix and this.
Mat4_translate_fromLeft(this, args) ==
    LET u == Arg(args, 0)  v == Arg(args, 1)  s == Arg(args, 2)
        x == AddArg(u, u, "x")
        y == AddArg(u, v, "y")
        z == AddArg(u, s, "z")
        t == <<One, Zero, Zero, x,  Zero, One, Zero, y,
               Zero, Zero, One, z,  Zero, Zero, Zero, One>>
    IN  Mat4_premul(this, t)

\* this.translate(u, v, s).
Mat4_translate(this, args) ==
    LET u == Arg(args, 0)  v == Arg(args, 1)  s == Arg(args, 2)
        x == AddArg(u, u, "x")
        y == AddArg(u, v, "y")
        z == AddArg(u, s, "z")
    IN  <<Add(S(this, 0), Mul(S(this, 12), x)),
          Add(S(this, 1), Mul(S(this, 13), x)),
          Add(S(this, 2), Mul(S(this, 14), x)),
          Add(S(this, 3), Mul(S(this, 15), x)),
          Add(S(this, 4), Mul(S(this, 12), y)),
          Add(S(this, 5), Mul(S(this, 13), y)),
          Add(S(this, 6), Mul(S(this, 14), y)),
          Add(S(this, 7), Mul(S(this, 15), y)),
          Add(S(this, 8), Mul(S(this, 12), z)),
          Add(S(this, 9), Mul(S(this, 13), z)),
          Add(S(this, 10), Mul(S(this, 14), z)),
          Add(S(this, 11), Mul(S(this, 15), z)),
          S(this, 12),
          S(this, 13),
          S(this, 14),
          S(this, 15)>>

\* this.scale(u, v, s).
Mat4_scale(this, args) ==
    LET u == Arg(args, 0)  v == Arg(args, 1)  s == Arg(args, 2)
        sx == WArg(u, u, "x")
        sy == ScaleArg(u, v, "y")
        sz == ScaleArg(u, s, "z")
    IN  <<Mul(S(this, 0), sx),
          Mul(S(this, 1), sx),
          Mul(S(this, 2), sx),
          Mul(S(this, 3), sx),
          Mul(S(this, 4), sy),
          Mul(S(this, 5), sy),
          Mul(S(this, 6), sy),
          Mul(S(this, 7), sy),
          Mul(S(this, 8), sz),
          Mul(S(this, 9), sz),
          Mul(S(this, 10), sz),
          Mul(S(this, 11), sz),
          S(this, 12),
          S(this, 13),
          S(this, 14),
          S(this, 15)>>

\* The storage after a rotation by angle around the unit vector axis.
Rotated(this, angle, axis) ==
    LET x == axis[1]
        y == axis[2]
        z == axis[3]
        cosa == MathCos(angle)
        sina == MathSin(angle)
        C == Sub(One, cosa)
        m11 == Add(Mul(Mul(x, x), C), cosa)
        m21 == Sub(Mul(Mul(x, y), C), Mul(z, sina))
        m31 == Add(Mul(Mul(x, z), C), Mul(y, sina))
        m12 == Add(Mul(Mul(y, x), C), Mul(z, sina))
        m22 == Add(Mul(Mul(y, y), C), cosa)
        m32 == Sub(Mul(Mul(y, z), C), Mul(x, sina))
        m13 == Sub(Mul(Mul(z, x), C), Mul(y, sina))
        m23 == Add(Mul(Mul(z, y), C), Mul(x, sina))
        m33 == Add(Mul(Mul(z, z), C), cosa)
        t0 == Add(Add(Mul(S(this, 0), m11), Mul(S(this, 4), m21)), Mul(S(this, 8), m31))
        t4 == Add(Add(Mul(S(this, 0), m12), Mul(S(this, 4), m22)), Mul(S(this, 8), m32))
        t8 == Add(Add(Mul(S(this, 0), m13), Mul(S(this, 4), m23)), Mul(S(this, 8), m33))
        t1 == Add(Add(Mul(S(this, 1), m11), Mul(S(this, 5), m21)), Mul(S(this, 9), m31))
        t5 == Add(Add(Mul(S(this, 1), m12), Mul(S(this, 5), m22)), Mul(S(this, 9), m32))
        t9 == Add(Add(Mul(S(this, 1), m13), Mul(S(this, 5), m23)), Mul(S(this, 9), m33))
        t2 == Add(Add(Mul(S(this, 2), m11), Mul(S(this, 6), m21)), Mul(S(this, 10), m31))
        t6 == Add(Add(Mul(S(this, 2), m12), Mul(S(this, 6), m22)), Mul(S(this, 10), m32))
        t10 == Add(Add(Mul(S(this, 2), m13), Mul(S(this, 6), m23)), Mul(S(this, 10), m33))
        t3 == Add(Add(Mul(S(this, 3), m11), Mul(S(this, 7), m21)), Mul(S(this, 11), m31))
        t7 == Add(Add(Mul(S(this, 3), m12), Mul(S(this, 7), m22)), Mul(S(this, 11), m32))
        t11 == Add(Add(Mul(S(this, 3), m13), Mul(S(this, 7), m23)), Mul(S(this, 11), m33))
    IN  <<t0,
          t1,
          t2,
          t3,
          t4,
          t5,
          t6,
          t7,
          t8,
          t9,
          t10,
          t11,
          S(this, 12),
          S(this, 13),
          S(this, 14),
          S(this, 15)>>

\* this.rotate(angle, u, v, s); the axis is computed once.
Mat4_rotate(this, angle, args) ==
    CHOOSE storage \in {Rotated(this, angle, axis) : axis \in {RotationAxis(args)}} : TRUE

\* The transpose in place of the inverse, which it is for rotations only.
Mat4_invert_asTranspose(this) == Mat4_transpose(this)

\* The cofactor form without the test of the determinant.
Mat4_invert_unguarded(this) ==
    LET a00 == S(this, 0)
        a01 == S(this, 1)
        a02 == S(this, 2)
        a03 == S(this, 3)
        m000 == S(this, 4)
        m001 == S(this, 5)
        m002 == S(this, 6)
        m003 == S(this, 7)
        m100 == S(this, 8)
        m101 == S(this, 9)
        m102 == S(this, 10)
        m103 == S(this, 11)
        m200 == S(this, 12)
        m201 == S(this, 13)
        m202 == S(this, 14)
        m203 == S(this, 15)
        b00 == Sub(Mul(a00, m001), Mul(a01, m000))
        b01 == Sub(Mul(a00, m002), Mul(a02, m000))
        b02 == Sub(Mul(a00, m003), Mul(a03, m000))
        b03 == Sub(Mul(a01, m002), Mul(a02, m001))
        b04 == Sub(Mul(a01, m003), Mul(a03, m001))
        b05 == Sub(Mul(a02, m003), Mul(a03, m002))
        b06 == Sub(Mul(m100, m201), Mul(m101, m200))
        b07 == Sub(Mul(m100, m202), Mul(m102, m200))
        b08 == Sub(Mul(m100, m203), Mul(m103, m200))
        b09 == Sub(Mul(m101, m202), Mul(m102, m201))
        m010 == Sub(Mul(m101, m203), Mul(m103, m201))
        m011 == Sub(Mul(m102, m203), Mul(m103, m202))
        det == Add(Sub(Add(Add(Sub(Mul(b00, m011), Mul(b01, m010)), Mul(b02, b09)), Mul(b03, b08)), Mul(b04, b07)), Mul(b05, b06))
        invDet == Div(One, det)
    IN  <<Mul(Add(Sub(Mul(m001, m011), Mul(m002, m010)), Mul(m003, b09)), invDet),
          Mul(Sub(Add(Mul(Neg(a01), m011), Mul(a02, m010)), Mul(a03, b09)), invDet),
          Mul(Add(Sub(Mul(m201, b05), Mul(m202, b04)), Mul(m203, b03)), invDet),
          Mul(Sub(Add(Mul(Neg(m101), b05), Mul(m102, b04)), Mul(m103, b03)), invDet),
          Mul(Sub(Add(Mul(Neg(m000), m011), Mul(m002, b08)), Mul(m003, b07)), invDet),
          Mul(Add(Sub(Mul(a00, m011), Mul(a02, b08)), Mul(a03, b07)), invDet),
          Mul(Sub(Add(Mul(Neg(m200), b05), Mul(m202, b02)), Mul(m203, b01)), invDet),
          Mul(Add(Sub(Mul(m100, b05), Mul(m102, b02)), Mul(m103, b01)), invDet),
          Mul(Add(Sub(Mul(m000, m010), Mul(m001, b08)), Mul(m003, b06)), invDet),
          Mul(Sub(Add(Mul(Neg(a00), m010), Mul(a01, b08)), Mul(a03, b06)), invDet),
          Mul(Add(Sub(Mul(m200, b04), Mul(m201, b02)), Mul(m203, b00)), invDet),
          Mul(Sub(Add(Mul(Neg(m100), b04), Mul(m101, b02)), Mul(m103, b00)), invDet),
          Mul(Sub(Add(Mul(Neg(m000), b09), Mul(m001, b07)), Mul(m002, b06)), invDet),
          Mul(Add(Sub(Mul(a00, b09), Mul(a01, b07)), Mul(a02, b06)), invDet),
          Mul(Sub(Add(Mul(Neg(m200), b03), Mul(m201, b01)), Mul(m202, b00)), invDet),
          Mul(Add(Sub(Mul(m100, b03), Mul(m101, b01)), Mul(m102, b00)), invDet)>>

\* this.invert(): unchanged when det == 0.0, else the cofactor form.
Mat4_invert(this) ==
    LET a00 == S(this, 0)
        a01 == S(this, 1)
        a02 == S(this, 2)
        a03 == S(this, 3)
        m000 == S(this, 4)
        m001 == S(this, 5)
        m002 == S(this, 6)
        m003 == S(this, 7)
        m100 == S(this, 8)
        m101 == S(this, 9)
        m102 == S(this, 10)
        m103 == S(this, 11)
        m200 == S(this, 12)
        m201 == S(this, 13)
        m202 == S(this, 14)
        m203 == S(this, 15)
        b00 == Sub(Mul(a00, m001), Mul(a01, m000))
        b01 == Sub(Mul(a00, m002), Mul(a02, m000))
        b02 == Sub(Mul(a00, m003), Mul(a03, m000))
        b03 == Sub(Mul(a01, m002), Mul(a02, m001))
        b04 == Sub(Mul(a01, m003), Mul(a03, m001))
        b05 == Sub(Mul(a02, m003), Mul(a03, m002))
        b06 == Sub(Mul(m100, m201), Mul(m101, m200))
        b07 == Sub(Mul(m100, m202), Mul(m102, m200))
        b08 == Sub(Mul(m100, m203), Mul(m103, m200))
        b09 == Sub(Mul(m101, m202), Mul(m102, m201))
        m010 == Sub(Mul(m101, m203), Mul(m103, m201))
        m011 == Sub(Mul(m102, m203), Mul(m103, m202))
        det == Add(Sub(Add(Add(Sub(Mul(b00, m011), Mul(b01, m010)), Mul(b02, b09)), Mul(b03, b08)), Mul(b04, b07)), Mul(b05, b06))
        invDet == Div(One, det)
    IN  IF det = Zero THEN this
        ELSE <<Mul(Add(Sub(Mul(m001, m011), Mul(m002, m010)), Mul(m003, b09)), invDet),
               Mul(Sub(Add(Mul(Neg(a01), m011), Mul(a02, m010)), Mul(a03, b09)), invDet),
               Mul(Add(Sub(Mul(m201, b05), Mul(m202, b04)), Mul(m203, b03)), invDet),
               Mul(Sub(Add(Mul(Neg(m101), b05), Mul(m102, b04)), Mul(m103, b03)), invDet),
               Mul(Sub(Add(Mul(Neg(m000), m011), Mul(m002, b08)), Mul(m003, b07)), invDet),
               Mul(Add(Sub(Mul(a00, m011), Mul(a02, b08)), Mul(a03, b07)), invDet),
               Mul(Sub(Add(Mul(Neg(m200), b05), Mul(m202, b02)), Mul(m203, b01)), invDet),
               Mul(Add(Sub(Mul(m100, b05), Mul(m102, b02)), Mul(m103, b01)), invDet),
               Mul(Add(Sub(Mul(m000, m010), Mul(m001, b08)), Mul(m003, b06)), invDet),
               Mul(Sub(Add(Mul(Neg(a00), m010), Mul(a01, b08)), Mul(a03, b06)), invDet),
               Mul(Add(Sub(Mul(m200, b04), Mul(m201, b02)), Mul(m203, b00)), invDet),
               Mul(Sub(Add(Mul(Neg(m100), b04), Mul(m101, b02)), Mul(m103, b00)), invDet),
               Mul(Sub(Add(Mul(Neg(m000), b09), Mul(m001, b07)), Mul(m002, b06)), invDet),
               Mul(Add(Sub(Mul(a00, b09), Mul(a01, b07)), Mul(a02, b06)), invDet),
               Mul(Sub(Add(Mul(Neg(m200), b03), Mul(m201, b01)), Mul(m202, b00)), invDet),
               Mul(Add(Sub(Mul(m100, b03), Mul(m101, b01)), Mul(m102, b00)), invDet)>>

----------------------------------------------------------------------------
(* A method of the program's vectors, whose class VecN is given by n.       *)

Vec_new(n, args) ==
    CASE
         n = 1 -> Vec1_new(args)
      [] n = 2 -> Vec2_new(args)
      [] n = 3 -> Vec3_new(args)
      [] n = 4 -> Vec4_new(args)

Vec_clone(n, this) ==
    CASE
         n = 1 -> Vec1_clone(this)
      [] n = 2 -> Vec2_clone(this)
      [] n = 3 -> Vec3_clone(this)
      [] n = 4 -> Vec4_clone(this)

Vec_set(n, this, args) ==
    CASE
         n = 1 -> Vec1_set(this, args)
      [] n = 2 -> Vec2_set(this, args)
      [] n = 3 -> Vec3_set(this, args)
      [] n = 4 -> Vec4_set(this, args)

Vec_add(n, this, args) ==
    CASE
         n = 1 -> Vec1_add(this, args)
      [] n = 2 -> Vec2_add(this, args)
      [] n = 3 -> Vec3_add(this, args)
      [] n = 4 -> Vec4_add(this, args)

Vec_plus(n, this, args) ==
    CASE
         n = 1 -> Vec1_plus(this, args)
      [] n = 2 -> Vec2_plus(this, args)
      [] n = 3 -> Vec3_plus(this, args)
      [] n = 4 -> Vec4_plus(this, args)

Vec_sub(n, this, args) ==
    CASE
         n = 1 -> Vec1_sub(this, args)
      [] n = 2 -> Vec2_sub(this, args)
      [] n = 3 -> Vec3_sub(this, args)
      [] n = 4 -> Vec4_sub(this, args)

Vec_minus(n, this, args) ==
    CASE
         n = 1 -> Vec1_minus(this, args)
      [] n = 2 -> Vec2_minus(this, args)
      [] n = 3 -> Vec3_minus(this, args)
      [] n = 4 -> Vec4_minus(this, args)

Vec_mul(n, this, args) ==
    CASE
         n = 1 -> Vec1_mul(this, args)
      [] n = 2 -> Vec2_mul(this, args)
      [] n = 3 -> Vec3_mul(this, args)
      [] n = 4 -> Vec4_mul(this, args)

Vec_times(n, this, args) ==
    CASE
         n = 1 -> Vec1_times(this, args)
      [] n = 2 -> Vec2_times(this, args)
      [] n = 3 -> Vec3_times(this, args)
      [] n = 4 -> Vec4_times(this, args)

Vec_div(n, this, args) ==
    CASE
         n = 1 -> Vec1_div(this, args)
      [] n = 2 -> Vec2_div(this, args)
      [] n = 3 -> Vec3_div(this, args)
      [] n = 4 -> Vec4_div(this, args)

Vec_over(n, this, args) ==
    CASE
         n = 1 -> Vec1_over(this, args)
      [] n = 2 -> Vec2_over(this, args)
      [] n = 3 -> Vec3_over(this, args)
      [] n = 4 -> Vec4_over(this, args)

Vec_setSum(n, this, bb, cc) ==
    CASE
         n = 1 -> Vec1_setSum(this, bb, cc)
      [] n = 2 -> Vec2_setSum(this, bb, cc)
      [] n = 3 -> Vec3_setSum(this, bb, cc)
      [] n = 4 -> Vec4_setSum(this, bb, cc)

Vec_setDifference(n, this, bb, cc) ==
    CASE
         n = 1 -> Vec1_setDifference(this, bb, cc)
      [] n = 2 -> Vec2_setDifference(this, bb, cc)
      [] n = 3 -> Vec3_setDifference(this, bb, cc)
      [] n = 4 -> Vec4_setDifference(this, bb, cc)

Vec_setProduct(n, this, bb, cc) ==
    CASE
         n = 1 -> Vec1_setProduct(this, bb, cc)
      [] n = 2 -> Vec2_setProduct(this, bb, cc)
      [] n = 3 -> Vec3_setProduct(this, bb, cc)
      [] n = 4 -> Vec4_setProduct(this, bb, cc)

Vec_setQuotient(n, this, bb, cc) ==
    CASE
         n = 1 -> Vec1_setQuotient(this, bb, cc)
      [] n = 2 -> Vec2_setQuotient(this, bb, cc)
      [] n = 3 -> Vec3_setQuotient(this, bb, cc)
      [] n = 4 -> Vec4_setQuotient(this, bb, cc)

Vec_setScaled(n, this, aa, sc) ==
    CASE
         n = 1 -> Vec1_setScaled(this, aa, sc)
      [] n = 2 -> Vec2_setScaled(this, aa, sc)
      [] n = 3 -> Vec3_setScaled(this, aa, sc)
      [] n = 4 -> Vec4_setScaled(this, aa, sc)

Vec_dot(n, this, args) ==
    CASE
         n = 1 -> Vec1_dot(this, args)
      [] n = 2 -> Vec2_dot(this, args)
      [] n = 3 -> Vec3_dot(this, args)
      [] n = 4 -> Vec4_dot(this, args)

----------------------------------------------------------------------------
(* Specification Spec: the arithmetic of the vector classes. The program   *)
(* constructs vectors a, b and c of one class and then assigns to a by one *)
(* of the three forms of every operation: a.setSum(b, c), a = b.plus(c),   *)
(* a.set(b).add(c), and so on; MaxOps bounds the number of assignments.    *)

MaxB == 1

MaxC == 2

MaxScalar == 2

MaxOps == 1

\* The numbers -1 .. max.
UpTo(max) == {Num(i) : i \in -1..max}

\* The scalars the program scales by: -1 .. MaxScalar.
Scalars == UpTo(MaxScalar)

\* The argument lists of n numbers from vals.
RECURSIVE Positional(_, _)
Positional(n, vals) ==
    IF n = 0 THEN {<<>>}
    ELSE {Append(p, JsNum(q)) : p \in Positional(n - 1, vals), q \in vals}

Call(op, args) == [op |-> op, args |-> args]

Init ==
    /\ cls \in 1..4
    /\ a = Vec_new(cls, <<>>)
    /\ \E p \in Positional(cls, UpTo(MaxB)) : b = Vec_new(cls, p)
    /\ \E p \in Positional(cls, UpTo(MaxC)) : c = Vec_new(cls, p)
    /\ mat = Mat4_new(<<>>)
    /\ last = Call("new", <<>>)
    /\ steps = 0

\* a.setSum(b, c)
SetSum ==
    /\ steps < MaxOps
    /\ a' = Vec_setSum(cls, a, b, c)
    /\ last' = Call("setSum", <<>>)
    /\ steps' = steps + 1
    /\ UNCHANGED <<cls, b, c, mat>>

\* a = b.plus(c)
Plus ==
    /\ steps < MaxOps
    /\ a' = Vec_plus(cls, b, <<VecObj(c)>>)
    /\ last' = Call("plus", <<>>)
    /\ steps' = steps + 1
    /\ UNCHANGED <<cls, b, c, mat>>

\* a.set(b).add(c)
SetAdd ==
    /\ steps < MaxOps
    /\ a' = Vec_add(cls, Vec_set(cls, a, <<VecObj(b)>>), <<VecObj(c)>>)
    /\ last' = Call("set.add", <<>>)
    /\ steps' = steps + 1
    /\ UNCHANGED <<cls, b, c, mat>>

\* a.setDifference(b, c)
SetDifference ==
    /\ steps < MaxOps
    /\ a' = Vec_setDifference(cls, a, b, c)
    /\ last' = Call("setDifference", <<>>)
    /\ steps' = steps + 1
    /\ UNCHANGED <<cls, b, c, mat>>

\* a = b.minus(c)
Minus ==
    /\ steps < MaxOps
    /\ a' = Vec_minus(cls, b, <<VecObj(c)>>)
    /\ last' = Call("minus", <<>>)
    /\ steps' = steps + 1
    /\ UNCHANGED <<cls, b, c, mat>>

\* a.set(b).sub(c)
SetSub ==
    /\ steps < MaxOps
    /\ a' = Vec_sub(cls, Vec_set(cls, a, <<VecObj(b)>>), <<VecObj(c)>>)
    /\ last' = Call("set.sub", <<>>)
    /\ steps' = steps + 1
    /\ UNCHANGED <<cls, b, c, mat>>

\* a.setProduct(b, c)
SetProduct ==
    /\ steps < MaxOps
    /\ a' = Vec_setProduct(cls, a, b, c)
    /\ last' = Call("setProduct", <<>>)
    /\ steps' = steps + 1
    /\ UNCHANGED <<cls, b, c, mat>>

\* a = b.times(c)
Times ==
    /\ steps < MaxOps
    /\ a' = Vec_times(cls, b, <<VecObj(c)>>)
    /\ last' = Call("times", <<>>)
    /\ steps' = steps + 1
    /\ UNCHANGED <<cls, b, c, mat>>

\* a.set(b).mul(c)
SetMul ==
    /\ steps < MaxOps
    /\ a' = Vec_mul(cls, Vec_set(cls, a, <<VecObj(b)>>), <<VecObj(c)>>)
    /\ last' = Call("set.mul", <<>>)
    /\ steps' = steps + 1
    /\ UNCHANGED <<cls, b, c, mat>>

\* a.setQuotient(b, c)
SetQuotient ==
    /\ steps < MaxOps
    /\ a' = Vec_setQuotient(cls, a, b, c)
    /\ last' = Call("setQuotient", <<>>)
    /\ steps' = steps + 1
    /\ UNCHANGED <<cls, b, c, mat>>

\* a = b.over(c)
Over ==
    /\ steps < MaxOps
    /\ a' = Vec_over(cls, b, <<VecObj(c)>>)
    /\ last' = Call("over", <<>>)
    /\ steps' = steps + 1
    /\ UNCHANGED <<cls, b, c, mat>>

\* a.set(b).div(c)
SetDiv ==
    /\ steps < MaxOps
    /\ a' = Vec_div(cls, Vec_set(cls, a, <<VecObj(b)>>), <<VecObj(c)>>)
    /\ last' = Call("set.div", <<>>)
    /\ steps' = steps + 1
    /\ UNCHANGED <<cls, b, c, mat>>

\* a.setScaled(b, s)
SetScaled ==
    \E s \in Scalars :
        /\ steps < MaxOps
        /\ a' = Vec_setScaled(cls, a, b, s)
        /\ last' = Call("setScaled", <<JsNum(s)>>)
        /\ steps' = steps + 1
    /\ UNCHANGED <<cls, b, c, mat>>

\* a = b.times(s)
TimesScalar ==
    \E s \in Scalars :
        /\ steps < MaxOps
        /\ a' = Vec_times(cls, b, <<JsNum(s)>>)
        /\ last' = Call("times", <<JsNum(s)>>)
        /\ steps' = steps + 1
    /\ UNCHANGED <<cls, b, c, mat>>

\* a.set(b).mul(s)
SetMulScalar ==
    \E s \in Scalars :
        /\ steps < MaxOps
        /\ a' = Vec_mul(cls, Vec_set(cls, a, <<VecObj(b)>>), <<JsNum(s)>>)
        /\ last' = Call("set.mul", <<JsNum(s)>>)
        /\ steps' = steps + 1
    /\ UNCHANGED <<cls, b, c, mat>>

Next ==
    \/ SetSum \/ Plus \/ SetAdd
    \/ SetDifference \/ Minus \/ SetSub
    \/ SetProduct \/ Times \/ SetMul
    \/ SetQuotient \/ Over \/ SetDiv
    \/ SetScaled \/ TimesScalar \/ SetMulScalar

Spec == Init /\ [][Next]_vars

\* The call that produced the state is one of ops, with n recorded arguments.
After(ops, n) == last.op \in ops /\ Len(last.args) = n

NoZero(v) == \A i \in DOMAIN v : v[i] # Zero

\* C1: the three forms of an operation agree. After any of setSum, plus and
\* set(b).add(c), a holds what each of the three gives for b and c; likewise
\* for the difference, the product, the quotient (no component of c is 0) and
\* the scaling by a number s, for vectors of every class Vec1..Vec4.
C1_FamiliesAgree ==
    LET viaSet == Vec_set(cls, a, <<VecObj(b)>>)
        vc == <<VecObj(c)>>
    IN  /\ After({"setSum", "plus", "set.add"}, 0) =>
              /\ a = Vec_setSum(cls, a, b, c)
              /\ a = Vec_plus(cls, b, vc)
              /\ a = Vec_add(cls, viaSet, vc)
        /\ After({"setDifference", "minus", "set.sub"}, 0) =>
              /\ a = Vec_setDifference(cls, a, b, c)
              /\ a = Vec_minus(cls, b, vc)
              /\ a = Vec_sub(cls, viaSet, vc)
        /\ After({"setProduct", "times", "set.mul"}, 0) =>
              /\ a = Vec_setProduct(cls, a, b, c)
              /\ a = Vec_times(cls, b, vc)
              /\ a = Vec_mul(cls, viaSet, vc)
        /\ After({"setQuotient", "over", "set.div"}, 0) /\ NoZero(c) =>
              /\ a = Vec_setQuotient(cls, a, b, c)
              /\ a = Vec_over(cls, b, vc)
              /\ a = Vec_div(cls, viaSet, vc)
        /\ After({"setScaled", "times", "set.mul"}, 1) =>
              /\ a = Vec_setScaled(cls, a, b, ToNumber(last.args[1]))
              /\ a = Vec_times(cls, b, last.args)
              /\ a = Vec_mul(cls, viaSet, last.args)

\* A Vec4 quotient by the in-place form, with a zero and negative components.
C1_Witness ==
    /\ cls = 4
    /\ last = Call("set.div", <<>>)
    /\ b = <<Num(1), Num(-1), Zero, One>>
    /\ c = <<Num(-1), Num(2), One, One>>
    /\ a = <<Num(-1), Q(-1, 2), Zero, One>>

----------------------------------------------------------------------------
(* Specification SpecStore: the storage interface of Mat4. The program     *)
(* fills the matrix m from 16 entries given in row-major order, as an      *)
(* array or as 16 arguments, to set or to the constructor, copies it with  *)
(* new Mat4(m), and writes single entries through the indexed properties;   *)
(* MaxCalls bounds the number of these calls in a run.                     *)

MaxEntry == 2

MaxCalls == 2

\* The values of the entries: 0 .. MaxEntry.
Entries == {Num(i) : i \in 0..MaxEntry}

\* 16 entries that are all w, except for v at index i (from 0).
OneOff(i, v, w) == [k \in 1..16 |-> IF k = i + 1 THEN v ELSE w]

\* The entries 1, 2, ..., 16.
Ramp == [k \in 1..16 |-> Num(k)]

\* The inputs the program passes.
Inputs == {OneOff(i, v, w) : i \in 0..15, v \in Entries, w \in Entries} \cup {Ramp}

\* The entries as 16 numeric arguments.
AsArguments(e) == [k \in 1..16 |-> JsNum(e[k])]

StoreInit ==
    /\ cls = 4
    /\ a = Vec_new(cls, <<>>)
    /\ b = Vec_new(cls, <<>>)
    /\ c = Vec_new(cls, <<>>)
    /\ mat = Mat4_new(<<>>)
    /\ last = Call("new", <<>>)
    /\ steps = 0

\* m.set(e) with an array e
SetArray ==
    \E e \in Inputs :
        /\ steps < MaxCalls
        /\ mat' = Mat4_set(mat, <<JsArray(e)>>)
        /\ last' = Call("set", <<JsArray(e)>>)
        /\ steps' = steps + 1
        /\ UNCHANGED <<cls, a, b, c>>

\* m.set(e0, e1, ..., e15)
SetArguments ==
    \E e \in Inputs :
        /\ steps < MaxCalls
        /\ mat' = Mat4_set(mat, AsArguments(e))
        /\ last' = Call("set", AsArguments(e))
        /\ steps' = steps + 1
        /\ UNCHANGED <<cls, a, b, c>>

\* m = new Mat4(e) with an array e
NewFromArray ==
    \E e \in Inputs :
        /\ steps < MaxCalls
        /\ mat' = Mat4_new(<<JsArray(e)>>)
        /\ last' = Call("new", <<JsArray(e)>>)
        /\ steps' = steps + 1
        /\ UNCHANGED <<cls, a, b, c>>

\* m = new Mat4(e0, e1, ..., e15)
NewFromArguments ==
    \E e \in Inputs :
        /\ steps < MaxCalls
        /\ mat' = Mat4_new(AsArguments(e))
        /\ last' = Call("new", AsArguments(e))
        /\ steps' = steps + 1
        /\ UNCHANGED <<cls, a, b, c>>

\* m = new Mat4(m)
NewCopy ==
    /\ steps < MaxCalls
    /\ mat' = Mat4_new(<<JsMat4(mat)>>)
    /\ last' = Call("new", <<JsMat4(mat)>>)
    /\ steps' = steps + 1
    /\ UNCHANGED <<cls, a, b, c>>

\* m[k] = v
PutIndexed ==
    \E k \in 0..15, v \in Entries :
        /\ steps < MaxCalls
        /\ mat' = Mat4_put(mat, k, JsNum(v))
        /\ last' = Call("put", <<JsNum(Num(k)), JsNum(v), JsMat4(mat)>>)
        /\ steps' = steps + 1
        /\ UNCHANGED <<cls, a, b, c>>

StoreNext ==
    \/ SetArray \/ SetArguments
    \/ NewFromArray \/ NewFromArguments \/ NewCopy
    \/ PutIndexed

SpecStore == StoreInit /\ [][StoreNext]_vars

\* The 16 row-major entries a call was given: the elements of its array, or
\* its 16 numeric arguments.
Given(call) ==
    IF Len(call.args) = 1 THEN call.args[1].e
    ELSE [k \in 1..16 |-> call.args[k].v]

\* The storage holds the row-major entries e: row r, column cc is in slot
\* 4*cc + r, and the indexed property k reads entry k.
HoldsRowMajor(storage, e) ==
    /\ \A r \in 0..3, cc \in 0..3 : S(storage, 4 * cc + r) = e[4 * r + cc + 1]
    /\ \A k \in 0..15 : Mat4_get(storage, k) = e[k + 1]

\* The call filled the matrix from 16 entries.
FilledFrom16 ==
    /\ last.op \in {"set", "new"}
    /\ \/ Len(last.args) = 16
       \/ Len(last.args) = 1 /\ last.args[1].k = "Array"

\* C2: Mat4 keeps a row-major interface over column-major storage. After
\* set or new Mat4 with 16 entries (an array or 16 arguments) the storage
\* holds them row-major; m[k] = v writes the slot m[k] reads, which is slot
\* 4*cc + r for k = 4*r + cc, and leaves the others; new Mat4(m) copies m.
C2_RowMajorInterface ==
    /\ FilledFrom16 => HoldsRowMajor(mat, Given(last))
    /\ last.op = "put" =>
          LET k == last.args[1].v[1]
              v == last.args[2].v
              before == last.args[3].storage
          IN  /\ Mat4_get(mat, k) = v
              /\ S(mat, 4 * (k % 4) + (k \div 4)) = v
              /\ \A j \in 0..15 : j # k => Mat4_get(mat, j) = Mat4_get(before, j)
    /\ last.op = "new" /\ Len(last.args) = 1 /\ last.args[1].k = "Mat4" =>
          mat = last.args[1].storage

\* new Mat4(1, 2, ..., 16) has been called.
C2_Witness ==
    /\ last = Call("new", AsArguments(Ramp))
    /\ S(mat, 0) = One
    /\ S(mat, 4) = Zero

\* The part of C2 that the code keeps: everything but the constructor
\* called with 16 numeric arguments.
C2_ExceptNewFromArguments ==
    (last.op = "new" /\ Len(last.args) = 16) \/ C2_RowMajorInterface

----------------------------------------------------------------------------
(* Specification SpecXform: transforming vectors by a matrix. The program  *)
(* constructs a vector b of class Vec2, Vec3 or Vec4 and the matrix m,     *)
(* builds m by at most MaxXforms calls, and then assigns to a the image of *)
(* b under m by the transforming methods of b's class.                     *)

MaxXforms == 2

\* An argument list of the given integers.
Nums(ints) == [k \in DOMAIN ints |-> JsNum(Num(ints[k]))]

\* An object literal with the given integer properties.
Obj(f) == JsObj([p \in DOMAIN f |-> JsNum(Num(f[p]))])

\* A new Mat4 from the array of the given integers.
Mat4Of(ints) == Mat4_new(<<JsArray([k \in DOMAIN ints |-> Num(ints[k])])>>)

\* The constructor arguments of b.
VectorArgs(n) ==
    CASE n = 2 -> {Nums(<<1, 2>>), Nums(<<1, 0>>), Nums(<<0, 1>>), Nums(<<-1, 2>>),
                   Nums(<<2, 2>>), <<>>}
      [] n = 3 -> {Nums(<<0, 1, 0>>), Nums(<<1, 0, 0>>), Nums(<<0, 0, 1>>),
                   Nums(<<1, 2, 3>>), Nums(<<-1, 2, 2>>), <<>>}
      [] n = 4 -> {Nums(<<1, 2, 3, 1>>), Nums(<<1, 0, 0, 0>>), Nums(<<0, 1, 0, 0>>),
                   Nums(<<0, 0, 1, 0>>), Nums(<<-1, 2, 3, 0>>), <<>>}

TranslateArgs == {Nums(<<3, 4>>), Nums(<<2, 3, 5>>), <<Obj([x |-> -1, y |-> 0, z |-> 1])>>}

ScaleArgs == {Nums(<<2>>), Nums(<<1, 2, 0>>)}

\* Angle and axis arguments of rotate.
RotateArgs ==
    {<<"PI/2">>,
     <<"PI/2", Obj([z |-> 1])>>,
     <<"PI/2", Obj([x |-> 1])>>,
     <<"-PI/2", Obj([z |-> 1])>>,
     <<"PI">> \o Nums(<<0, 2, 0>>),
     <<"atan(4/3)", Obj([x |-> 2, y |-> 2, z |-> 1])>>}

\* Row-major arrays with a fourth column that is not (0, 0, 0, 1).
ProjectiveArrays ==
    {<<1, 0, 0, 1,  0, 1, 0, 0,  0, 0, 1, 0,  0, 0, 0, 1>>,
     <<2, 0, 1, 0,  1, 1, 0, 1,  0, 3, 1, 0,  1, 0, 2, 2>>}

\* The matrices m is multiplied with.
Operands ==
    {Mat4_translate(Mat4_new(<<>>), Nums(<<1, 2, 3>>)),
     Mat4_rotate(Mat4_new(<<>>), "PI/2", <<Obj([x |-> 1])>>),
     Mat4Of(<<2, 0, 1, 0,  1, 1, 0, 1,  0, 3, 1, 0,  1, 0, 2, 2>>)}

MatrixOps == {"new", "translate", "scale", "rotate", "set", "transpose", "mul", "premul"}

\* The program is still building m: no vector has been transformed yet.
Building == last.op \in MatrixOps /\ steps < MaxXforms

XformInit ==
    /\ cls \in 2..4
    /\ a = Vec_new(cls, <<>>)
    /\ \E p \in VectorArgs(cls) : b = Vec_new(cls, p)
    /\ c = Vec_new(cls, <<>>)
    /\ mat = Mat4_new(<<>>)
    /\ last = Call("new", <<>>)
    /\ steps = 0

\* m.translate(...)
Translate ==
    \E args \in TranslateArgs :
        /\ Building
        /\ mat' = Mat4_translate(mat, args)
        /\ last' = Call("translate", args)
        /\ steps' = steps + 1
        /\ UNCHANGED <<cls, a, b, c>>

\* m.scale(...)
Scale ==
    \E args \in ScaleArgs :
        /\ Building
        /\ mat' = Mat4_scale(mat, args)
        /\ last' = Call("scale", args)
        /\ steps' = steps + 1
        /\ UNCHANGED <<cls, a, b, c>>

\* m.rotate(angle, ...)
Rotate ==
    \E args \in RotateArgs :
        /\ Building
        /\ mat' = Mat4_rotate(mat, Head(args), Tail(args))
        /\ last' = Call("rotate", args)
        /\ steps' = steps + 1
        /\ UNCHANGED <<cls, a, b, c>>

\* m.set(array)
SetProjective ==
    \E e \in ProjectiveArrays :
        /\ Building
        /\ mat' = Mat4_set(mat, <<JsArray([k \in 1..16 |-> Num(e[k])])>>)
        /\ last' = Call("set", <<JsArray([k \in 1..16 |-> Num(e[k])])>>)
        /\ steps' = steps + 1
        /\ UNCHANGED <<cls, a, b, c>>

\* m.transpose()
Transpose ==
    /\ Building
    /\ mat' = Mat4_transpose(mat)
    /\ last' = Call("transpose", <<>>)
    /\ steps' = steps + 1
    /\ UNCHANGED <<cls, a, b, c>>

\* m.mul(n)
MulBy ==
    \E n \in Operands :
        /\ Building
        /\ mat' = Mat4_mul(mat, n)
        /\ last' = Call("mul", <<JsMat4(n), JsMat4(mat)>>)
        /\ steps' = steps + 1
        /\ UNCHANGED <<cls, a, b, c>>

\* m.premul(n)
PremulBy ==
    \E n \in Operands :
        /\ Building
        /\ mat' = Mat4_premul(mat, n)
        /\ last' = Call("premul", <<JsMat4(n), JsMat4(mat)>>)
        /\ steps' = steps + 1
        /\ UNCHANGED <<cls, a, b, c>>

\* The assignment of a by a transforming method leaves the rest alone.
Assigns(op, value) ==
    /\ a' = value
    /\ last' = Call(op, <<>>)
    /\ UNCHANGED <<cls, b, c, mat, steps>>

\* a.set(b).xy01mul(m)
Xy01mul == cls = 2 /\ Assigns("xy01mul", Vec2_xy01mul(Vec2_set(a, <<VecObj(b)>>), mat))

\* a = b.xy01times(m)
Xy01times == cls = 2 /\ Assigns("xy01times", Vec2_xy01times(b, mat))

\* a.set(b).xy00mul(m)
Xy00mul == cls = 2 /\ Assigns("xy00mul", Vec2_xy00mul(Vec2_set(a, <<VecObj(b)>>), mat))

\* a = b.xy00times(m)
Xy00times == cls = 2 /\ Assigns("xy00times", Vec2_xy00times(b, mat))

\* a.set(b).xyz1mul(m)
Xyz1mul == cls = 3 /\ Assigns("xyz1mul", Vec3_xyz1mul(Vec3_set(a, <<VecObj(b)>>), mat))

\* a = b.xyz1times(m)
Xyz1times == cls = 3 /\ Assigns("xyz1times", Vec3_xyz1times(b, mat))

\* a.set(b).xyz0mul(m)
Xyz0mul == cls = 3 /\ Assigns("xyz0mul", Vec3_xyz0mul(Vec3_set(a, <<VecObj(b)>>), mat))

\* a = b.xyz0times(m)
Xyz0times == cls = 3 /\ Assigns("xyz0times", Vec3_xyz0times(b, mat))

\* a.set(b).mul(m)
MulMat4 == cls = 4 /\ Assigns("Vec4.mul", Vec4_mul(Vec4_set(a, <<VecObj(b)>>), <<JsMat4(mat)>>))

\* a = b.times(m)
TimesMat4 == cls = 4 /\ Assigns("Vec4.times", Vec4_times(b, <<JsMat4(mat)>>))

XformNext ==
    \/ Translate \/ Scale \/ Rotate \/ SetProjective \/ Transpose \/ MulBy \/ PremulBy
    \/ Xy01mul \/ Xy01times \/ Xy00mul \/ Xy00times
    \/ Xyz1mul \/ Xyz1times \/ Xyz0mul \/ Xyz0times
    \/ MulMat4 \/ TimesMat4

SpecXform == XformInit /\ [][XformNext]_vars

\* The Vec4 instances the properties below quantify over.
Vec4Pool == {Vec4_new(p) : p \in VectorArgs(4)}

\* The argument list holding the Mat4 with the given storage.
TheMat4(storage) == <<JsMat4(storage)>>

\* C3: composition order under the row-vector convention. After m.mul(n),
\* transforming any Vec4 v by m equals transforming it by the earlier m and
\* then by n; after m.premul(n) it equals transforming by n and then by the
\* earlier m; and v.mul(m) gives the components of v.times(m).
C3_CompositionOrder ==
    /\ last.op = "mul" =>
          \A v \in Vec4Pool :
              Vec4_times(v, TheMat4(mat)) =
                  Vec4_times(Vec4_times(v, <<last.args[2]>>), <<last.args[1]>>)
    /\ last.op = "premul" =>
          \A v \in Vec4Pool :
              Vec4_times(v, TheMat4(mat)) =
                  Vec4_times(Vec4_times(v, <<last.args[1]>>), <<last.args[2]>>)
    /\ last.op \in {"Vec4.mul", "Vec4.times"} =>
          /\ a = Vec4_times(b, TheMat4(mat))
          /\ a = Vec4_mul(Vec4_clone(b), TheMat4(mat))

\* m.mul(n) has been called for an m and n that do not commute.
C3_Witness ==
    /\ last.op = "mul"
    /\ steps = 2
    /\ mat # Mat4_mul(last.args[1].storage, last.args[2].storage)

\* Translation entries to try in place of those of m.
Shifts == {<<Num(5), Num(-7), Num(1)>>, <<Zero, Zero, Zero>>}

\* C4: the homogeneous helpers of Vec2 and Vec3 refine the Vec4 transform.
\* xy01mul and xy01times give the first two components of
\* Vec4(x, y, 0, 1).times(m), each divided by the fourth; xyz1mul and
\* xyz1times the first three of Vec4(x, y, z, 1).times(m) divided by the
\* fourth; the 00 and 0 forms give the components of Vec4(x, y, 0, 0).times(m)
\* and Vec4(x, y, z, 0).times(m) undivided, whatever the translation entries
\* of m are; and (1, 2) by translate(3, 4) via xy01mul is (4, 6).
C4_HelpersRefineVec4 ==
    LET full(x, y, z, w) ==
            Vec4_times(Vec4_new(<<JsNum(x), JsNum(y), JsNum(z), JsNum(w)>>), TheMat4(mat))
        shifted == {[mat EXCEPT ![4] = t[1], ![8] = t[2], ![12] = t[3]] : t \in Shifts}
    IN  /\ last.op \in {"xy01mul", "xy01times"} =>
              LET r == full(b[1], b[2], Zero, One)
              IN  a = <<Div(r[1], r[4]), Div(r[2], r[4])>>
        /\ last.op \in {"xyz1mul", "xyz1times"} =>
              LET r == full(b[1], b[2], b[3], One)
              IN  a = <<Div(r[1], r[4]), Div(r[2], r[4]), Div(r[3], r[4])>>
        /\ last.op \in {"xy00mul", "xy00times"} =>
              LET r == full(b[1], b[2], Zero, Zero)
              IN  /\ a = <<r[1], r[2]>>
                  /\ \A n \in shifted : Vec2_xy00mul(Vec2_clone(b), n) = a
                  /\ \A n \in shifted : Vec2_xy00times(b, n) = a
        /\ last.op \in {"xyz0mul", "xyz0times"} =>
              LET r == full(b[1], b[2], b[3], Zero)
              IN  /\ a = <<r[1], r[2], r[3]>>
                  /\ \A n \in shifted : Vec3_xyz0mul(Vec3_clone(b), n) = a
                  /\ \A n \in shifted : Vec3_xyz0times(b, n) = a
        /\ (/\ last.op = "xy01mul"
            /\ b = <<Num(1), Num(2)>>
            /\ mat = Mat4_translate(Mat4_new(<<>>), Nums(<<3, 4>>))) =>
              a = <<Num(4), Num(6)>>

\* (1, 2) has been transformed by new Mat4().translate(3, 4) via xy01mul.
C4_Witness ==
    /\ cls = 2
    /\ last.op = "xy01mul"
    /\ b = <<Num(1), Num(2)>>
    /\ steps = 1
    /\ S(mat, 3) = Num(3)
    /\ S(mat, 7) = Num(4)
    /\ a = <<Num(4), Num(6)>>

\* C5: the right-handed quarter turn, with cos and sin of PI/2 exactly 0 and
\* 1. new Mat4().rotate(PI/2, {z:1}) maps every Vec4 (x, y, z, w) to
\* (-y, x, z, w); rotate(PI/2) with no axis builds the same matrix; and
\* Vec3(0, 1, 0).xyz0mul(new Mat4().translate(3, 4).rotate(PI/2, {z:1})) is
\* (-1, 0, 0).
C5_QuarterTurn ==
    LET aboutZ == <<Obj([z |-> 1])>>
        turn == Mat4_rotate(Mat4_new(<<>>), "PI/2", aboutZ)
    IN  /\ (/\ last.op = "rotate"
            /\ steps = 1
            /\ last.args \in {<<"PI/2">>, <<"PI/2">> \o aboutZ}) =>
              \A v \in Vec4Pool :
                  Vec4_mul(v, TheMat4(mat)) = <<Neg(v[2]), v[1], v[3], v[4]>>
        /\ (last.op = "rotate" /\ steps = 1 /\ last.args = <<"PI/2">>) => mat = turn
        /\ (cls = 4 /\ last.op \in {"Vec4.mul", "Vec4.times"} /\ mat = turn) =>
              a = <<Neg(b[2]), b[1], b[3], b[4]>>
        /\ (/\ last.op = "xyz0mul"
            /\ b = <<Zero, One, Zero>>
            /\ mat = Mat4_rotate(Mat4_translate(Mat4_new(<<>>), Nums(<<3, 4>>)), "PI/2", aboutZ)) =>
              a = <<Num(-1), Zero, Zero>>

\* (1, 2, 3, 1) has been multiplied by new Mat4().rotate(PI/2, {z:1}).
C5_Witness ==
    /\ cls = 4
    /\ last.op = "Vec4.mul"
    /\ steps = 1
    /\ b = <<Num(1), Num(2), Num(3), One>>
    /\ mat = Mat4_rotate(Mat4_new(<<>>), "PI/2", <<Obj([z |-> 1])>>)
    /\ a = <<Num(-2), Num(1), Num(3), One>>

----------------------------------------------------------------------------
(***************************************************************************)
(* Specification SpecMat: building and inverting a matrix. The program     *)
(* constructs the matrix m, from no argument or from an array, and calls   *)
(* translate, scale, mul with a translation, transpose and invert on it;   *)
(* MaxMatOps bounds the number of calls in a run.                          *)
(***************************************************************************)
MaxMatOps == 2

\* Row-major arrays m is constructed from: a translation, matrices of
\* determinant 1, -1, -4 and 19, and a singular one.
MatArrays ==
    {<<1, 0, 0, 0,  0, 1, 0, 0,  0, 0, 1, 0,  2, 3, 5, 1>>,
     <<1, 2, 0, 1,  0, 1, 3, 0,  0, 0, 1, 2,  0, 0, 0, 1>>,
     <<0, 1, 3, 0,  1, 2, 0, 1,  0, 0, 1, 2,  0, 0, 0, 1>>,
     <<2, 1, 0, 1,  1, 1, 1, 0,  0, 1, 2, 1,  1, 0, 1, 1>>,
     <<2, 0, 1, 0,  1, 1, 0, 1,  0, 3, 1, 0,  1, 0, 2, 2>>,
     <<1, 2, 3, 4,  2, 4, 6, 8,  0, 1, 0, 1,  1, 0, 1, 0>>}

\* The arguments of translate: three numbers; the set is closed under
\* negation.
ShiftArgs ==
    {Nums(<<x, y, z>>) : x \in {-2, 0, 2}, y \in {-2, 0, 2}, z \in {-2, 0, 2}}
        \cup {Nums(<<2, 3, 5>>), Nums(<<-2, -3, -5>>), Nums(<<3, 4, 5>>), Nums(<<-3, -4, -5>>)}

\* The arguments of scale: three factors, one factor, or none.
FactorArgs ==
    {Nums(<<sx, sy, sz>>) : sx \in 0..2, sy \in 0..2, sz \in 0..2}
        \cup {Nums(<<s>>) : s \in 0..2} \cup {<<>>}

MatInit ==
    /\ cls = 4
    /\ a = Vec4_new(<<>>)
    /\ b = Vec4_new(<<>>)
    /\ c = Vec4_new(<<>>)
    /\ \/ mat = Mat4_new(<<>>)
       \/ \E e \in MatArrays : mat = Mat4Of(e)
    /\ last = Call("new", <<>>)
    /\ steps = 0

\* m.translate(x, y, z)
TranslateBy ==
    /\ steps < MaxMatOps
    /\ \E args \in ShiftArgs :
          /\ mat' = Mat4_translate(mat, args)
          /\ last' = Call("translate", args)
    /\ steps' = steps + 1
    /\ UNCHANGED <<cls, a, b, c>>

\* m.scale(sx, sy, sz), m.scale(s), m.scale()
ScaleBy ==
    /\ steps < MaxMatOps
    /\ \E args \in FactorArgs :
          /\ mat' = Mat4_scale(mat, args)
          /\ last' = Call("scale", args)
    /\ steps' = steps + 1
    /\ UNCHANGED <<cls, a, b, c>>

\* m.mul(new Mat4().translate(x, y, z))
MulByTranslation ==
    /\ steps < MaxMatOps
    /\ \E args \in ShiftArgs :
          /\ mat' = Mat4_mul(mat, Mat4_translate(Mat4_new(<<>>), args))
          /\ last' = Call("mul.translate", args)
    /\ steps' = steps + 1
    /\ UNCHANGED <<cls, a, b, c>>

\* m.transpose()
TransposeIt ==
    /\ steps < MaxMatOps
    /\ mat' = Mat4_transpose(mat)
    /\ last' = Call("transpose", <<>>)
    /\ steps' = steps + 1
    /\ UNCHANGED <<cls, a, b, c>>

\* m.invert()
Invert ==
    /\ steps < MaxMatOps
    /\ mat' = Mat4_invert(mat)
    /\ last' = Call("invert", <<>>)
    /\ steps' = steps + 1
    /\ UNCHANGED <<cls, a, b, c>>

MatNext == TranslateBy \/ ScaleBy \/ MulByTranslation \/ TransposeIt \/ Invert

SpecMat == MatInit /\ [][MatNext]_vars

\* The entry in row r and column c of the row-major view.
Entry(m, row, col) == Mat4_get(m, 4 * row + col)

\* The determinant of the rows 1..3 and the given three columns.
Minor(m, c1, c2, c3) ==
    LET e(row, col) == Entry(m, row, col)
        two(r1, r2, p, q) == Sub(Mul(e(r1, p), e(r2, q)), Mul(e(r1, q), e(r2, p)))
    IN  Add(Sub(Mul(e(1, c1), two(2, 3, c2, c3)),
                Mul(e(1, c2), two(2, 3, c1, c3))),
            Mul(e(1, c3), two(2, 3, c1, c2)))

\* The determinant, expanded along row 0.
Det(m) ==
    Sub(Add(Sub(Mul(Entry(m, 0, 0), Minor(m, 1, 2, 3)),
                Mul(Entry(m, 0, 1), Minor(m, 0, 2, 3))),
            Mul(Entry(m, 0, 2), Minor(m, 0, 1, 3))),
        Mul(Entry(m, 0, 3), Minor(m, 0, 1, 2)))

\* The storage of the identity.
Identity ==
    <<One, Zero, Zero, Zero,  Zero, One, Zero, Zero,
      Zero, Zero, One, Zero,  Zero, Zero, Zero, One>>

\* new Mat4([1,0,0,0, 0,1,0,0, 0,0,1,0, x,y,z,1])
TranslationOf(x, y, z) ==
    Mat4_new(<<JsArray(<<One, Zero, Zero, Zero,  Zero, One, Zero, Zero,
                         Zero, Zero, One, Zero,  x, y, z, One>>)>>)

\* new Mat4([sx,0,0,0, 0,sy,0,0, 0,0,sz,0, 0,0,0,1])
ScalingOf(sx, sy, sz) ==
    Mat4_new(<<JsArray(<<sx, Zero, Zero, Zero,  Zero, sy, Zero, Zero,
                         Zero, Zero, sz, Zero,  Zero, Zero, Zero, One>>)>>)

\* The argument list of the negated numbers.
Negated(args) == [k \in DOMAIN args |-> JsNum(Neg(args[k].v))]

\* C6: translate is a right-multiplication. m.translate(x, y, z) leaves m as
\* the product of the earlier m and the row-major matrix
\* [1,0,0,0, 0,1,0,0, 0,0,1,0, x,y,z,1];
\* new Mat4().translate(x, y, z).mul(new Mat4().translate(-x, -y, -z)) is the
\* identity; and new Mat4([1,0,0,0, 0,1,0,0, 0,0,1,0, 2,3,5,1]) multiplied by
\* new Mat4().translate(-2, -3, -5) is the identity.
C6_TranslateIsRightMul ==
    [][
        /\ last'.op = "translate" =>
             LET p == last'.args
             IN  mat' = Mat4_mul(Mat4_clone(mat), TranslationOf(p[1].v, p[2].v, p[3].v))
        /\ (/\ last.op = "translate"
            /\ mat = Mat4_translate(Mat4_new(<<>>), last.args)
            /\ last'.op = "mul.translate"
            /\ last'.args = Negated(last.args)) =>
             mat' = Identity
        /\ (/\ mat = Mat4Of(<<1, 0, 0, 0,  0, 1, 0, 0,  0, 0, 1, 0,  2, 3, 5, 1>>)
            /\ last' = Call("mul.translate", Nums(<<-2, -3, -5>>))) =>
             mat' = Identity]_vars

\* new Mat4().translate(3, 4, 5) has been multiplied by
\* new Mat4().translate(-3, -4, -5).
C6_Witness ==
    /\ steps = 2
    /\ last = Call("mul.translate", Nums(<<-3, -4, -5>>))
    /\ mat = Identity

\* C7: scale is a right-multiplication. m.scale(sx, sy, sz) leaves m as the
\* product of the earlier m and the row-major matrix
\* [sx,0,0,0, 0,sy,0,0, 0,0,sz,0, 0,0,0,1], for every combination of factors;
\* m.scale(s) behaves as m.scale(s, s, s); and m.scale() leaves m unchanged.
C7_ScaleIsRightMul ==
    [][last'.op = "scale" =>
          LET p == last'.args
          IN  CASE Len(p) = 3 ->
                     mat' = Mat4_mul(Mat4_clone(mat), ScalingOf(p[1].v, p[2].v, p[3].v))
                [] Len(p) = 1 ->
                     /\ mat' = Mat4_scale(Mat4_clone(mat), <<p[1], p[1], p[1]>>)
                     /\ mat' = Mat4_mul(Mat4_clone(mat), ScalingOf(p[1].v, p[1].v, p[1].v))
                [] Len(p) = 0 -> mat' = mat]_vars

\* new Mat4().scale(2, 1, 1) has been called and has left the matrix of
\* scale(2, 2, 2).
C7_Witness ==
    /\ steps = 1
    /\ last = Call("scale", Nums(<<2, 1, 1>>))
    /\ mat = ScalingOf(Num(2), Num(2), Num(2))

\* The property of C7 for the calls other than those with a first factor
\* different from 1 and a second or third factor equal to 1.
C7_ExceptUnitAfterNonUnit ==
    [][(/\ last'.op = "scale"
        /\ Len(last'.args) = 3
        /\ (last'.args[1].v = One \/ (last'.args[2].v # One /\ last'.args[3].v # One))) =>
          LET p == last'.args
          IN  mat' = Mat4_mul(Mat4_clone(mat), ScalingOf(p[1].v, p[2].v, p[3].v))]_vars

\* C8: the inversion round trip. For every m with a determinant other than
\* 0, v.times(m).times(m.clone().invert()) is v for every Vec4 v, and
\* m.clone().mul(m.clone().invert()) is the identity.
C8_InversionRoundTrip ==
    [][(last'.op = "invert" /\ Det(mat) # Zero) =>
          /\ mat' = Mat4_invert(Mat4_clone(mat))
          /\ \A v \in Vec4Pool :
                Vec4_times(Vec4_times(v, TheMat4(mat)), TheMat4(mat')) = v
          /\ Mat4_mul(Mat4_clone(mat), mat') = Identity]_vars

\* The matrix of determinant 19 has been inverted.
C8_Witness ==
    /\ steps = 1
    /\ last.op = "invert"
    /\ \E k \in 1..16 : mat[k][2] = 19

\* C9: invert on a singular matrix is a silent no-op. When the determinant
\* is 0, m.invert() leaves every entry of m as it was; when it is not, the
\* call stores the inverse in m.
C9_SingularInvertIsNoOp ==
    [][last'.op = "invert" =>
          IF Det(mat) = Zero
          THEN mat' = mat
          ELSE /\ Mat4_mul(Mat4_clone(mat'), mat) = Identity
               /\ (mat' = mat <=> Mat4_mul(Mat4_clone(mat), mat) = Identity)]_vars

\* The singular matrix of the arrays has been inverted and is unchanged.
C9_Witness ==
    /\ steps = 1
    /\ last.op = "invert"
    /\ mat = Mat4Of(<<1, 2, 3, 4,  2, 4, 6, 8,  0, 1, 0, 1,  1, 0, 1, 0>>)

----------------------------------------------------------------------------
(***************************************************************************)
(* Specification SpecDefaults: construction and set with positional        *)
(* numbers. The program constructs a vector a of one class from at most as *)
(* many numbers as it has components, and the matrix m; then it calls      *)
(* a.set(...) or replaces a by a new vector, with any such argument list,  *)
(* and calls m.set() or m.set(array) or replaces m by new Mat4();          *)
(* MaxSets bounds the number of calls in a run.                            *)
(***************************************************************************)
MaxSupplied == 1
MaxSets == 2

\* The numbers supplied as arguments.
Supplied == -1..MaxSupplied

RECURSIVE UpToLen(_)
\* The lists of at most n supplied numbers.
UpToLen(n) ==
    IF n = 0 THEN {<<>>}
    ELSE LET shorter == UpToLen(n - 1)
         IN  shorter \cup {Append(p, i) : p \in {q \in shorter : Len(q) = n - 1},
                                          i \in Supplied}

\* The argument lists of the constructor and of set for the class.
PositionalArgs(n) == {Nums(p) : p \in UpToLen(n)}

DefaultsInit ==
    /\ cls \in 1..4
    /\ \E args \in PositionalArgs(cls) :
          /\ a = Vec_new(cls, args)
          /\ last = Call("Vec.new", args)
    /\ b = Vec_new(cls, <<>>)
    /\ c = Vec_new(cls, <<>>)
    /\ mat = Mat4_new(<<>>)
    /\ steps = 0

\* a = new VecN(...)
VecNew ==
    /\ steps < MaxSets
    /\ \E args \in PositionalArgs(cls) :
          /\ a' = Vec_new(cls, args)
          /\ last' = Call("Vec.new", args)
    /\ steps' = steps + 1
    /\ UNCHANGED <<cls, b, c, mat>>

\* a.set(...)
VecSet ==
    /\ steps < MaxSets
    /\ \E args \in PositionalArgs(cls) :
          /\ a' = Vec_set(cls, a, args)
          /\ last' = Call("Vec.set", args)
    /\ steps' = steps + 1
    /\ UNCHANGED <<cls, b, c, mat>>

\* m = new Mat4()
Mat4New ==
    /\ steps < MaxSets
    /\ mat' = Mat4_new(<<>>)
    /\ last' = Call("Mat4.new", <<>>)
    /\ steps' = steps + 1
    /\ UNCHANGED <<cls, a, b, c>>

\* m.set()
Mat4SetNone ==
    /\ steps < MaxSets
    /\ mat' = Mat4_set(mat, <<>>)
    /\ last' = Call("Mat4.set", <<>>)
    /\ steps' = steps + 1
    /\ UNCHANGED <<cls, a, b, c>>

\* m.set(array)
Mat4SetArray ==
    /\ steps < MaxSets
    /\ \E e \in MatArrays :
          LET array == JsArray([k \in DOMAIN e |-> Num(e[k])])
          IN  /\ mat' = Mat4_set(mat, <<array>>)
              /\ last' = Call("Mat4.set", <<array>>)
    /\ steps' = steps + 1
    /\ UNCHANGED <<cls, a, b, c>>

DefaultsNext == VecNew \/ VecSet \/ Mat4New \/ Mat4SetNone \/ Mat4SetArray

SpecDefaults == DefaultsInit /\ [][DefaultsNext]_vars

\* The documented default of component i (from 1) of the class.
Default(n, i) == IF n = 4 /\ i = 4 THEN One ELSE Zero

\* C10: the documented defaults, from any prior state. After the constructor
\* or set of a vector with positional numbers, every component supplied
\* holds the number given and every other component holds 0, or 1 for the
\* fourth component of Vec4; with no argument these are zeros for Vec1, Vec2
\* and Vec3 and (0, 0, 0, 1) for Vec4. After new Mat4() or m.set() with no
\* argument m is the identity.
C10_Defaults ==
    /\ last.op \in {"Vec.new", "Vec.set"} =>
          /\ Len(a) = cls
          /\ \A i \in 1..cls :
                a[i] = IF i <= Len(last.args) THEN last.args[i].v ELSE Default(cls, i)
    /\ (last.op \in {"Vec.new", "Vec.set"} /\ last.args = <<>>) =>
          a = CASE cls = 1 -> <<Zero>>
                [] cls = 2 -> <<Zero, Zero>>
                [] cls = 3 -> <<Zero, Zero, Zero>>
                [] cls = 4 -> <<Zero, Zero, Zero, One>>
    /\ (last.op \in {"Mat4.new", "Mat4.set"} /\ last.args = <<>>) => mat = Identity

\* A Vec4 holding other numbers has been set to (1, 0, 0, 0), every
\* component supplied.
C10_Witness ==
    /\ cls = 4
    /\ steps = 2
    /\ last = Call("Vec.set", Nums(<<1, 0, 0, 0>>))
    /\ a = <<One, Zero, Zero, Zero>>

----------------------------------------------------------------------------
(***************************************************************************)
(* Specification SpecArgs: the argument lists of the vector methods. The   *)
(* program constructs a vector a and calls one of set, add, sub, plus,     *)
(* minus, dot, mul, div, times and over with no argument, with a number or *)
(* an object literal first, and with or without further numbers. b holds   *)
(* the storage a had before the call; the result of an allocating method   *)
(* is assigned to a, and the number dot returns is kept as a's only slot.  *)
(* MaxArgCalls bounds the number of calls in a run.                        *)
(***************************************************************************)
MaxField == 2
MaxArgCalls == 1

\* The values a field of an object literal or a first number takes.
FieldVals == {JsNum(Num(i)) : i \in 0..MaxField}

\* The numbers that follow the first argument.
LaterVals == {0, 1, 3}

\* The property names of a vector of n components.
Fields(n) == {Names[i] : i \in 1..n}

\* The object literals with numeric fields among x, y, z, w.
Objects(n) == {JsObj(f) : f \in UNION {[D -> FieldVals] : D \in SUBSET Fields(n)}}

\* The argument lists: none, or a first argument alone or followed by one
\* number for every later component.
ArgLists(n) ==
    {<<>>} \cup
    {<<f>> \o r : f \in Objects(n) \cup FieldVals,
                  r \in {<<>>} \cup {[k \in 1..(n - 1) |-> JsNum(Num(p))] : p \in LaterVals}}

\* The receivers.
Receivers(n) ==
    {Vec_new(n, SubSeq(p, 1, n)) : p \in {Nums(<<2, 3, 5, 7>>), Nums(<<-1, 4, 0, 1>>)}}

ArgsInit ==
    /\ cls \in 1..4
    /\ a \in Receivers(cls)
    /\ b = a
    /\ c = Vec_new(cls, <<>>)
    /\ mat = Mat4_new(<<>>)
    /\ last = Call("new", <<>>)
    /\ steps = 0

\* A call is still to be made, and a holds a vector.
Calling == steps < MaxArgCalls /\ Len(a) = cls

\* The call of the method op on a, leaving value in a.
Calls(op, args, value) ==
    /\ a' = value
    /\ b' = a
    /\ last' = Call(op, args)
    /\ steps' = steps + 1
    /\ UNCHANGED <<cls, c, mat>>

\* a.set(...)
ArgSet == Calling /\ \E args \in ArgLists(cls) : Calls("set", args, Vec_set(cls, a, args))

\* a.add(...)
ArgAdd == Calling /\ \E args \in ArgLists(cls) : Calls("add", args, Vec_add(cls, a, args))

\* a.sub(...)
ArgSub == Calling /\ \E args \in ArgLists(cls) : Calls("sub", args, Vec_sub(cls, a, args))

\* a = a.plus(...)
ArgPlus == Calling /\ \E args \in ArgLists(cls) : Calls("plus", args, Vec_plus(cls, a, args))

\* a = a.minus(...)
ArgMinus == Calling /\ \E args \in ArgLists(cls) : Calls("minus", args, Vec_minus(cls, a, args))

\* a.dot(...)
ArgDot == Calling /\ \E args \in ArgLists(cls) : Calls("dot", args, <<Vec_dot(cls, a, args)>>)

\* a.mul(...)
ArgMul == Calling /\ \E args \in ArgLists(cls) : Calls("mul", args, Vec_mul(cls, a, args))

\* a.div(...)
ArgDiv == Calling /\ \E args \in ArgLists(cls) : Calls("div", args, Vec_div(cls, a, args))

\* a = a.times(...)
ArgTimes == Calling /\ \E args \in ArgLists(cls) : Calls("times", args, Vec_times(cls, a, args))

\* a = a.over(...)
ArgOver == Calling /\ \E args \in ArgLists(cls) : Calls("over", args, Vec_over(cls, a, args))

ArgsNext ==
    \/ ArgSet \/ ArgAdd \/ ArgSub \/ ArgPlus \/ ArgMinus \/ ArgDot
    \/ ArgMul \/ ArgDiv \/ ArgTimes \/ ArgOver

SpecArgs == ArgsInit /\ [][ArgsNext]_vars

Additive == {"add", "plus"}
Subtractive == {"sub", "minus"}
Multiplying == {"mul", "times"}
Dividing == {"div", "over"}

\* The component the method op leaves for the earlier component e and the
\* operand f.
Combined(op, e, f) ==
    CASE op = "set"          -> f
      [] op \in Additive     -> Add(e, f)
      [] op \in Subtractive  -> Sub(e, f)
      [] op \in Multiplying  -> Mul(e, f)
      [] op \in Dividing     -> Div(e, f)

RECURSIVE DotOfFields(_, _, _)
\* The sum over the first n components of e of the products with the
\* fields of the object u.
DotOfFields(e, u, n) ==
    IF n = 0 THEN Zero
    ELSE Add(DotOfFields(e, u, n - 1), Mul(e[n], u.f[Names[n]].v))

\* The last call was made with an object literal first.
ObjectFirst == Len(last.args) > 0 /\ last.args[1].k = "object"

\* The components i of y, z, w for which the object has a field, with those
\* for which pick(i, field) holds.
Named(pick(_, _)) ==
    {i \in 2..cls : /\ Names[i] \in DOMAIN last.args[1].f
                    /\ pick(i, last.args[1].f[Names[i]].v)}

\* What the last call must have left, for the components of Named(pick).
FieldsUsed(pick(_, _)) ==
    (cls >= 2 /\ ObjectFirst) =>
        LET u == last.args[1]
        IN  /\ last.op \in {"set"} \cup Additive \cup Subtractive \cup Multiplying \cup Dividing =>
                  \A i \in Named(pick) : a[i] = Combined(last.op, b[i], u.f[Names[i]].v)
            /\ (last.op = "dot" /\ DOMAIN u.f = Fields(cls) /\ Named(pick) = 2..cls) =>
                  a = <<DotOfFields(b, u, cls)>>

\* C11: named fields take precedence over positional arguments. After set,
\* add, sub, plus, minus, dot, mul, div, times or over of Vec2, Vec3 or Vec4
\* with an object first that has a numeric field for y, z or w, 0 and 1
\* included, the component is the one the field's value gives, whatever the
\* positional argument for that component.
C11_NamedFieldsFirst ==
    LET any(i, f) == TRUE
    IN  FieldsUsed(any)

\* new Vec2(-1, 4).set({x: 2, y: 0}, 3) has been called and has stored the 3
\* in y.
C11_Witness ==
    /\ cls = 2
    /\ b = <<Num(-1), Num(4)>>
    /\ last = Call("set", <<Obj([x |-> 2, y |-> 0]), JsNum(Num(3))>>)
    /\ a = <<Num(2), Num(3)>>

\* The value of a field that the expression of the method for the component
\* takes for a field that is not given: 0, and 1 in mul, div, times, over
\* and for w in Vec4's set.
Unseen(op, i) ==
    IF op \in Multiplying \cup Dividing \/ (op = "set" /\ i = 4) THEN One ELSE Zero

\* The property of C11 for the fields other than those with the value of
\* Unseen and a positional argument for the component.
C11_ExceptUnseenFields ==
    LET seen(i, f) == f # Unseen(last.op, i) \/ Len(last.args) < i
    IN  FieldsUsed(seen)

\* What mul, div, times and over must have left when a factor is missing or
\* is 0; the call without arguments is included when bare holds.
FactorsDefault(bare) ==
    last.op \in Multiplying \cup Dividing =>
        /\ (bare /\ last.args = <<>>) => a = b
        /\ ObjectFirst =>
              LET u == last.args[1]
              IN  \A i \in 1..cls :
                      /\ (Names[i] \notin DOMAIN u.f /\ (i = 1 \/ Len(last.args) < i)) =>
                            a[i] = b[i]
                      /\ (Names[i] \in DOMAIN u.f /\ u.f[Names[i]].v = Zero) =>
                            a[i] = Combined(last.op, b[i], Zero)
        /\ last.args = <<JsNum(Zero)>> =>
              \A i \in 1..cls : a[i] = Combined(last.op, b[i], Zero)

\* C12: the multiplicative default is 1. After mul, div, times or over of
\* Vec1..Vec4 with no argument the vector is unchanged; with an object that
\* lacks the field for an axis the vector is unchanged on that axis; and a
\* factor of 0, as the only number or as a field, multiplies (or divides)
\* the component by 0.
C12_MultiplicativeDefault == FactorsDefault(TRUE)

\* new Vec2(2, 3).mul() has been called and has left NaN in both components.
C12_Witness ==
    /\ cls = 2
    /\ b = <<Num(2), Num(3)>>
    /\ last = Call("mul", <<>>)
    /\ a = <<NaN, NaN>>

\* The property of C12 for the calls with an argument.
C12_ExceptNoArgument == FactorsDefault(FALSE)

----------------------------------------------------------------------------
(***************************************************************************)
(* Typed arrays. A Float32Array is a window [buf, off, len] on a buffer of *)
(* the heap, a sequence of buffers; slot s of the typed array, from 0, is  *)
(* slot off + s of the buffer.                                             *)
(***************************************************************************)
Window(buf, off, len) == [buf |-> buf, off |-> off, len |-> len]

\* typedArray.subarray(begin, end): a window on the same buffer; a negative
\* index counts from the end, and both are clamped to the typed array.
TypedSubarray(w, begin, end) ==
    LET rel(x) == IF x < 0 THEN (IF w.len + x < 0 THEN 0 ELSE w.len + x)
                  ELSE (IF x > w.len THEN w.len ELSE x)
        lo == rel(begin)
        hi == rel(end)
    IN  Window(w.buf, w.off + lo, IF hi > lo THEN hi - lo ELSE 0)

\* The numbers a method reads in slots 0..n-1 of the typed array; a slot
\* beyond its length reads as undefined, NaN in arithmetic.
Contents(heap, w, n) ==
    [s \in 1..n |-> IF s <= w.len THEN heap[w.buf][w.off + s] ELSE NaN]

\* The heap after the assignments storage[s] = vals[s + 1]; an assignment
\* beyond the length of the typed array has no effect.
Store(heap, w, vals) ==
    [heap EXCEPT ![w.buf] =
        [s \in 1..Len(@) |->
            IF s > w.off /\ s <= w.off + w.len /\ s - w.off <= Len(vals)
            THEN vals[s - w.off] ELSE @[s]]]

\* new Vec1Array(size), Vec2Array, Vec3Array, Mat4Array, with k the number
\* of slots of an element: the object made, on a new buffer of the heap.
Array_new(heap, k, size) ==
    [kind |-> "array", length |-> size, storage |-> Window(Len(heap) + 1, 0, size * k)]

\* at with the index taken as a slot of the storage, not multiplied by the
\* slots of an element.
Array_at_unscaled(this, k, index) ==
    [kind |-> "element", index |-> index,
     storage |-> TypedSubarray(this.storage, index, index + k)]

\* this.at(index): the element object made.
Array_at(this, k, index) ==
    [kind |-> "element", index |-> index,
     storage |-> TypedSubarray(this.storage, index * k, index * k + k)]

\* this.subarray(begin, end): the array object made.
Array_subarray(this, k, begin, end) ==
    [kind |-> "subarray", begin |-> begin, end |-> end,
     storage |-> TypedSubarray(this.storage, begin * k, end * k)]

\* this.scale(b, s) with the contents bb of b: the contents of this.
VecArray_scale(this, bb, sc) == [i \in 1..Len(this) |-> Mul(bb[i], sc)]

\* this.clamp(): the contents of this.
VecArray_clamp(this) ==
    [i \in 1..Len(this) |->
        LET low == IF Lt(this[i], Zero) THEN Zero ELSE this[i]
        IN  IF Gt(low, One) THEN One ELSE low]

----------------------------------------------------------------------------
(***************************************************************************)
(* Specification SpecArray: arrays and the views on them. The program      *)
(* constructs an array of ArrayLen elements of one class, with cls the     *)
(* number of slots of an element: 1, 2 and 3 for Vec1Array, Vec2Array and  *)
(* Vec3Array, 16 for Mat4Array. It takes views with at and subarray,       *)
(* calls set, add, transpose, clone or plus on an element view, and scale  *)
(* and clamp on the array. In this specification a is the heap, b the     *)
(* sequence of the objects made, the array first, and c the numbers the    *)
(* program has last written to every slot of the array, by the element     *)
(* index and component it wrote to. MaxArrayOps bounds the number of calls *)
(* in a run.                                                               *)
(***************************************************************************)
ArrayLen == 2
MaxArrayOps == 4

\* The classes of arrays, by the slots of an element.
ArrayClasses == {1, 2, 3, 16}

\* The indices given to at, and the bounds given to subarray.
Indices == -1..ArrayLen

\* The arguments of set and add on an element.
ElementArgs ==
    IF cls = 16
    THEN {<<>>, <<JsArray([k \in 1..16 |-> Num(k)])>>}
    ELSE {SubSeq(p, 1, cls) : p \in {Nums(<<1, 2, 3>>), Nums(<<-1, 0, 2>>)}}

\* The positions in b of the element views.
Elements == {j \in 1..Len(b) : b[j].kind = "element"}

ArrayInit ==
    /\ cls \in ArrayClasses
    /\ a = <<Float32Array(ArrayLen * cls)>>
    /\ b = <<Array_new(<<>>, cls, ArrayLen)>>
    /\ c = Float32Array(ArrayLen * cls)
    /\ mat = Mat4_new(<<>>)
    /\ last = Call("new", <<ArrayLen>>)
    /\ steps = 0

\* A call is still to be made.
MoreArrayOps == steps < MaxArrayOps

\* array.at(index)
At ==
    /\ MoreArrayOps
    /\ \E index \in Indices :
          /\ b' = Append(b, Array_at(b[1], cls, index))
          /\ last' = Call("at", <<index>>)
    /\ steps' = steps + 1
    /\ UNCHANGED <<cls, a, c, mat>>

\* array.subarray(begin, end)
Subarray ==
    /\ MoreArrayOps
    /\ \E begin \in Indices, end \in Indices :
          /\ b' = Append(b, Array_subarray(b[1], cls, begin, end))
          /\ last' = Call("subarray", <<begin, end>>)
    /\ steps' = steps + 1
    /\ UNCHANGED <<cls, a, c, mat>>

\* The element view b[j] is assigned the values vals by the call of op.
\* c records them for the slots of element index, when the array has it.
ElementWrite(j, op, args, vals) ==
    /\ a' = Store(a, b[j].storage, vals)
    /\ c' = IF b[j].index \in 0..(ArrayLen - 1)
            THEN [s \in 1..Len(c) |->
                     IF (s - 1) \div cls = b[j].index THEN vals[((s - 1) % cls) + 1]
                     ELSE c[s]]
            ELSE c
    /\ last' = Call(op, <<j>> \o args)
    /\ steps' = steps + 1
    /\ UNCHANGED <<cls, b, mat>>

\* view.set(...)
ElementSet ==
    /\ MoreArrayOps
    /\ \E j \in Elements, args \in ElementArgs :
          LET this == Contents(a, b[j].storage, cls)
          IN  ElementWrite(j, "set", args,
                           IF cls = 16 THEN Mat4_set(this, args) ELSE Vec_set(cls, this, args))

\* view.add(...) on an element of a vector array
ElementAdd ==
    /\ MoreArrayOps
    /\ cls # 16
    /\ \E j \in Elements, args \in ElementArgs :
          ElementWrite(j, "add", args, Vec_add(cls, Contents(a, b[j].storage, cls), args))

\* view.transpose() on an element of a Mat4Array
ElementTranspose ==
    /\ MoreArrayOps
    /\ cls = 16
    /\ \E j \in Elements :
          ElementWrite(j, "transpose", <<>>, Mat4_transpose(Contents(a, b[j].storage, cls)))

\* The object of kind made on a new buffer holding vals.
Allocated(kind, vals) ==
    /\ a' = Append(a, vals)
    /\ b' = Append(b, [kind |-> kind, storage |-> Window(Len(a) + 1, 0, Len(vals))])

\* view.clone(): the new storage is new Float32Array(view.storage).
ElementClone ==
    /\ MoreArrayOps
    /\ \E j \in Elements :
          /\ Allocated("clone", Contents(a, b[j].storage, b[j].storage.len))
          /\ last' = Call("clone", <<j>>)
    /\ steps' = steps + 1
    /\ UNCHANGED <<cls, c, mat>>

\* view.plus(...) on an element of a vector array: the new storage is
\* new Float32Array(cls).
ElementPlus ==
    /\ MoreArrayOps
    /\ cls # 16
    /\ \E j \in Elements, args \in ElementArgs :
          /\ Allocated("sum", Vec_plus(cls, Contents(a, b[j].storage, cls), args))
          /\ last' = Call("plus", <<j>> \o args)
    /\ steps' = steps + 1
    /\ UNCHANGED <<cls, c, mat>>

\* The array is assigned the values vals by the call of op; written are the
\* numbers the call is to write, from those last written.
BulkWrite(op, args, vals, written) ==
    /\ a' = Store(a, b[1].storage, vals)
    /\ c' = written
    /\ last' = Call(op, args)
    /\ steps' = steps + 1
    /\ UNCHANGED <<cls, b, mat>>

\* array.scale(array, s)
BulkScale ==
    /\ MoreArrayOps
    /\ cls # 16
    /\ \E s \in {0, 2} :
          LET this == Contents(a, b[1].storage, b[1].storage.len)
          IN  BulkWrite("scale", <<s>>, VecArray_scale(this, this, Num(s)),
                        [i \in 1..Len(c) |-> Mul(c[i], Num(s))])

\* array.clamp()
BulkClamp ==
    /\ MoreArrayOps
    /\ cls # 16
    /\ BulkWrite("clamp", <<>>, VecArray_clamp(Contents(a, b[1].storage, b[1].storage.len)),
                 [i \in 1..Len(c) |-> IF c[i][1] < 0 THEN Zero
                                       ELSE IF c[i][1] > c[i][2] THEN One ELSE c[i]])

ArrayNext ==
    \/ At \/ Subarray \/ ElementSet \/ ElementAdd \/ ElementTranspose
    \/ ElementClone \/ ElementPlus \/ BulkScale \/ BulkClamp

SpecArray == ArrayInit /\ [][ArrayNext]_vars

\* C13: views alias the parent buffer. Through every view of an element i
\* in 0..ArrayLen-1 obtained from at(i), component s reads the number last
\* written to slot i * cls + s of the array, through any of the views of the
\* element or by scale or clamp on the array; and the array holds in every
\* slot the number last written to it, so that a write through a view of
\* element i has changed no slot of another element.
C13_ViewsAlias ==
    /\ Contents(a, b[1].storage, ArrayLen * cls) = c
    /\ \A j \in Elements :
          b[j].index \in 0..(ArrayLen - 1) =>
              \A s \in 1..cls :
                  Contents(a, b[j].storage, cls)[s] = c[b[j].index * cls + s]

\* Two views of element 1 of a Vec2Array coexist; (1, 2) has been set
\* through the first and added through the second.
C13_Witness ==
    /\ cls = 2
    /\ Len(b) = 3
    /\ b[2] = Array_at(b[1], 2, 1)
    /\ b[3] = b[2]
    /\ last = Call("add", <<3>> \o Nums(<<1, 2>>))
    /\ c = <<Zero, Zero, Num(2), Num(4)>>
    /\ Contents(a, b[2].storage, 2) = <<Num(2), Num(4)>>

\* The storage lengths of the objects made; inRange restricts the views to
\* those with arguments within the array.
SizesFixed(inRange) ==
    /\ Len(a[1]) = ArrayLen * cls
    /\ b[1].storage.len = b[1].length * cls
    /\ \A j \in 2..Len(b) :
          LET o == b[j]
          IN  /\ (o.kind = "element" /\ (inRange => o.index \in 0..(ArrayLen - 1))) =>
                    o.storage.len = cls
              /\ (o.kind = "subarray" /\ 0 <= o.begin /\ o.begin <= o.end /\ o.end <= ArrayLen) =>
                    o.storage.len = (o.end - o.begin) * cls
              /\ o.kind = "subarray" => o.storage.len % cls = 0
              /\ o.kind = "sum" => o.storage.len = cls
              /\ (o.kind = "clone" /\ ~inRange) => o.storage.len = cls
              /\ o.kind \in {"sum", "clone"} => Len(a[o.storage.buf]) = o.storage.len

\* C14: buffer sizes are fixed by type. The array of ArrayLen elements has a
\* storage of ArrayLen * cls slots and its buffer keeps that length; every
\* element returned by at(i), for any integer i, every clone of one and
\* every vector returned by plus has a storage of exactly cls slots; and
\* every view returned by subarray(begin, end) has a storage of whole
\* elements, end - begin of them for bounds within the array.
C14_SizesFixed == SizesFixed(FALSE)

\* at(2) has been called on a Vec2Array of 2 elements and has returned a Vec2
\* with a storage of no slot.
C14_Witness ==
    /\ cls = 2
    /\ last = Call("at", <<2>>)
    /\ b[Len(b)].kind = "element"
    /\ b[Len(b)].storage.len = 0

\* The property of C14 for the elements at(i) returns for i in
\* 0..ArrayLen-1, leaving out the clones.
C14_ExceptOutOfRange == SizesFixed(TRUE)

----------------------------------------------------------------------------
(***************************************************************************)
(* clamp and setClamped. The methods of Vec1..Vec4 repeat the same         *)
(* statements for every component; n is the number of components.          *)
(***************************************************************************)

\* maxVal && ((maxVal.p - 1) || (Number(maxVal).valueOf() - 1) || 0) + 1 :
\* the upper bound for the component p.
ClampMax(maxVal, p) ==
    ToNumber(JsAnd(maxVal, JsPlus1(JsOr(JsOr(JsMinus1(Prop(maxVal, p)),
                                             JsMinus1(JsNum(ToNumber(maxVal)))), JsNum(Zero)))))

\* clamp that leaves out the test against the upper bound.
Vec_clamp_minOnly(n, this, args) ==
    [i \in 1..n |->
        LET mina == AddArg(Arg(args, 0), Arg(args, 0), Names[i])
        IN  IF Lt(this[i], mina) THEN mina ELSE this[i]]

\* this.clamp(minVal, maxVal): the receiver's storage afterwards.
Vec_clamp(n, this, args) ==
    [i \in 1..n |->
        LET mina == AddArg(Arg(args, 0), Arg(args, 0), Names[i])
            maxa == ClampMax(Arg(args, 1), Names[i])
            low  == IF Lt(this[i], mina) THEN mina ELSE this[i]
        IN  IF Gt(low, maxa) THEN maxa ELSE low]

\* this.setClamped(b, minVal, maxVal) with the storage bb of b.
Vec_setClamped(n, this, bb, args) ==
    [i \in 1..n |->
        LET mina == AddArg(Arg(args, 0), Arg(args, 0), Names[i])
            maxa == ClampMax(Arg(args, 1), Names[i])
        IN  IF Lt(bb[i], mina) THEN mina
            ELSE IF Gt(bb[i], maxa) THEN maxa
            ELSE bb[i]]

(***************************************************************************)
(* Specification SpecClamp: the program constructs vectors a and b of one  *)
(* class and calls a.clamp(min, max) or a.setClamped(b, min, max) with     *)
(* numbers or object literals as bounds; c holds the storage a had before  *)
(* the call. MaxClamps bounds the number of calls in a run.                *)
(***************************************************************************)
MaxBound == 2
MaxClamps == 1

\* The components of a and b: -2, 1/2 and 3.
ClampComponents == {Num(-2), Q(1, 2), Num(3)}

RECURSIVE VectorsOver(_, _)
\* The storages of n components from the set.
VectorsOver(n, set) ==
    IF n = 0 THEN {<<>>}
    ELSE {Append(v, x) : v \in VectorsOver(n - 1, set), x \in set}

\* The bounds: a number, or an object literal with a field for every
\* component, in one of two patterns.
ScalarBounds == {JsNum(Num(i)) : i \in -1..MaxBound}

LowObjects == {Obj([x |-> 0, y |-> 1, z |-> -1, w |-> 0]), Obj([x |-> -1, y |-> 0, z |-> 0, w |-> 1])}

HighObjects == {Obj([x |-> 0, y |-> 1, z |-> 2, w |-> 1]), Obj([x |-> 1, y |-> 2, z |-> 0, w |-> 2])}

BoundArgs == {<<lo, hi>> : lo \in ScalarBounds \cup LowObjects, hi \in ScalarBounds \cup HighObjects}

ClampInit ==
    /\ cls \in 1..4
    /\ a \in VectorsOver(cls, ClampComponents)
    /\ b \in {[i \in 1..cls |-> Num(-2)], [i \in 1..cls |-> Q(i, 2)]}
    /\ c = a
    /\ mat = Mat4_new(<<>>)
    /\ last = Call("new", <<>>)
    /\ steps = 0

\* a.clamp(min, max)
Clamp ==
    /\ steps < MaxClamps
    /\ \E args \in BoundArgs :
          /\ a' = Vec_clamp(cls, a, args)
          /\ last' = Call("clamp", args)
    /\ c' = a
    /\ steps' = steps + 1
    /\ UNCHANGED <<cls, b, mat>>

\* a.setClamped(b, min, max)
SetClamped ==
    /\ steps < MaxClamps
    /\ \E args \in BoundArgs :
          /\ a' = Vec_setClamped(cls, a, b, args)
          /\ last' = Call("setClamped", args)
    /\ c' = a
    /\ steps' = steps + 1
    /\ UNCHANGED <<cls, b, mat>>

ClampNext == Clamp \/ SetClamped

SpecClamp == ClampInit /\ [][ClampNext]_vars

\* The bound the argument gives for component i: the number itself, or the
\* field of the object.
BoundOf(arg, i) == IF arg.k = "number" THEN arg.v ELSE arg.f[Names[i]].v

\* x <= y
Le(x, y) == x = y \/ Lt(x, y)

\* C17: clamp bounds. For bounds with min <= max on every axis, a number
\* applying to all axes and an object per axis, after v.clamp(min, max)
\* every component of v lies in [min_i, max_i] and a component that was in
\* range is unchanged; and a.setClamped(b, min, max) stores in a the
\* components that b.clone().clamp(min, max) has.
C17_ClampBounds ==
    (/\ last.op \in {"clamp", "setClamped"}
     /\ \A i \in 1..cls : Le(BoundOf(last.args[1], i), BoundOf(last.args[2], i))) =>
        LET lo(i) == BoundOf(last.args[1], i)
            hi(i) == BoundOf(last.args[2], i)
            from  == IF last.op = "clamp" THEN c ELSE b
        IN  /\ \A i \in 1..cls :
                  /\ Le(lo(i), a[i]) /\ Le(a[i], hi(i))
                  /\ (Le(lo(i), from[i]) /\ Le(from[i], hi(i))) => a[i] = from[i]
            /\ last.op = "setClamped" => a = Vec_clamp(cls, Vec_clone(cls, b), last.args)

\* (-2, 1/2, 3) has been clamped to [0, 1] and is (0, 1/2, 1).
C17_Witness ==
    /\ cls = 3
    /\ c = <<Num(-2), Q(1, 2), Num(3)>>
    /\ last = Call("clamp", Nums(<<0, 1>>))
    /\ a = <<Zero, Q(1, 2), One>>

----------------------------------------------------------------------------
(***************************************************************************)
(* The bulk transforms of Vec2Array and Vec3Array. this and v are the      *)
(* storages of the destination and of the source array, m the storage of   *)
(* the matrix; the result is the destination's storage after the loop      *)
(* for (i = 0; i < this.storage.length; i += k).                           *)
(***************************************************************************)

\* v.storage[i]: a read beyond the typed array gives undefined, NaN in
\* arithmetic.
Slot(v, i) == IF i + 1 \in DOMAIN v THEN v[i + 1] ELSE NaN

\* Vec2Array.prototype.xy01mul(v, m)
Vec2Array_xy01mul(this, v, m) ==
    [j \in 1..Len(this) |->
        LET i == 2 * ((j - 1) \div 2)
        IN  IF j - 1 = i
            THEN Add(Add(Mul(Slot(v, i), S(m, 0)), Mul(Slot(v, i + 1), S(m, 1))), S(m, 3))
            ELSE Add(Add(Mul(Slot(v, i), S(m, 4)), Mul(Slot(v, i + 1), S(m, 5))), S(m, 7))]

\* Vec2Array.prototype.xy00mul(v, m)
Vec2Array_xy00mul(this, v, m) ==
    [j \in 1..Len(this) |->
        LET i == 2 * ((j - 1) \div 2)
        IN  IF j - 1 = i
            THEN Add(Mul(Slot(v, i), S(m, 0)), Mul(Slot(v, i + 1), S(m, 1)))
            ELSE Add(Mul(Slot(v, i), S(m, 4)), Mul(Slot(v, i + 1), S(m, 5)))]

\* The sum v[i] * m[r] + v[i+1] * m[r+1] + v[i+2] * m[r+2] of the loop body.
Row3(v, i, m, r) ==
    Add(Add(Mul(Slot(v, i), S(m, r)), Mul(Slot(v, i + 1), S(m, r + 1))),
        Mul(Slot(v, i + 2), S(m, r + 2)))

\* Vec3Array.prototype.xyz1mul(v, m)
Vec3Array_xyz1mul(this, v, m) ==
    [j \in 1..Len(this) |->
        LET i == 3 * ((j - 1) \div 3)
            r == 4 * (j - 1 - i)
        IN  Add(Row3(v, i, m, r), S(m, r + 3))]

\* Vec3Array.prototype.xyz0mul(v, m)
Vec3Array_xyz0mul(this, v, m) ==
    [j \in 1..Len(this) |->
        LET i == 3 * ((j - 1) \div 3)
            r == 4 * (j - 1 - i)
        IN  Row3(v, i, m, r)]

(***************************************************************************)
(* Specification SpecBulk: the program fills a source array v of BulkLen   *)
(* vectors (a is its storage), constructs a destination array dst of the   *)
(* same length (b is its storage) and a matrix m (mat), and calls one bulk *)
(* transform dst.op(v, m). cls is 2 for Vec2Array and 3 for Vec3Array.     *)
(***************************************************************************)
BulkLen == 2
MaxBulkOps == 1
MaxBulkComponent == 2

BulkComponents == {Num(i) : i \in 1..MaxBulkComponent}

\* The matrices: the identity, a translation, the identity with
\* storage[15] = 2, and an array with a fourth column other than (0, 0, 0, 1).
BulkMats ==
    {Mat4_new(<<>>),
     Mat4_translate(Mat4_new(<<>>), Nums(<<1, 2, 3>>)),
     [Mat4_new(<<>>) EXCEPT ![16] = Num(2)],
     Mat4Of(<<2, 0, 1, 0,  1, 1, 0, 1,  0, 3, 1, 0,  1, 0, 2, 2>>)}

BulkInit ==
    /\ cls \in {2, 3}
    /\ a \in VectorsOver(cls * BulkLen, BulkComponents)
    /\ b = Float32Array(cls * BulkLen)
    /\ c = <<>>
    /\ mat \in BulkMats
    /\ last = Call("new", <<BulkLen>>)
    /\ steps = 0

\* dst.op(v, m) on arrays of class n has stored the values.
BulkCall(n, op, value) ==
    /\ steps < MaxBulkOps
    /\ cls = n
    /\ b' = value
    /\ last' = Call(op, <<>>)
    /\ steps' = steps + 1
    /\ UNCHANGED <<cls, a, c, mat>>

BulkXy01mul == BulkCall(2, "xy01mul", Vec2Array_xy01mul(b, a, mat))

BulkXy00mul == BulkCall(2, "xy00mul", Vec2Array_xy00mul(b, a, mat))

BulkXyz1mul == BulkCall(3, "xyz1mul", Vec3Array_xyz1mul(b, a, mat))

BulkXyz0mul == BulkCall(3, "xyz0mul", Vec3Array_xyz0mul(b, a, mat))

BulkNext == BulkXy01mul \/ BulkXy00mul \/ BulkXyz1mul \/ BulkXyz0mul

SpecBulk == BulkInit /\ [][BulkNext]_vars

\* The storage of array.at(i) for an array of class n.
ElementOf(storage, n, i) == [j \in 1..n |-> storage[i * n + j]]

\* What the scalar transform named like the bulk one returns for the vector v.
ScalarTransform(op, v, m) ==
    CASE op = "xy01mul" -> Vec2_xy01times(v, m)
      [] op = "xy00mul" -> Vec2_xy00times(v, m)
      [] op = "xyz1mul" -> Vec3_xyz1times(v, m)
      [] op = "xyz0mul" -> Vec3_xyz0times(v, m)

BulkOps == {"xy01mul", "xy00mul", "xyz1mul", "xyz0mul"}

\* After a bulk transform every element of dst is the scalar transform of
\* the element of v, for the matrices the predicate admits.
BulkIsScalar(admitted(_)) ==
    (last.op \in BulkOps /\ admitted(mat)) =>
        \A i \in 0..(BulkLen - 1) :
            ElementOf(b, cls, i) = ScalarTransform(last.op, ElementOf(a, cls, i), mat)

\* C16: bulk transforms equal the per-element scalar transforms. For every
\* source array v, matrix m (also one whose fourth column makes w differ
\* from 1), destination dst distinct from v and index i, after
\* dst.xy01mul(v, m) the element dst.at(i) equals v.at(i).xy01times(m); the
\* same for xy00mul, xyz1mul and xyz0mul with their scalar transforms.
C16_BulkIsScalar ==
    LET any(m) == TRUE
    IN  BulkIsScalar(any)

\* v holds (1, 2) and (2, 1), m is the identity with storage[15] = 2, and
\* dst.xy01mul(v, m) has stored (1, 2) and (2, 1), while xy01times gives
\* (1/2, 1) and (1, 1/2).
C16_Witness ==
    /\ cls = 2
    /\ a = <<Num(1), Num(2), Num(2), Num(1)>>
    /\ mat = [Mat4_new(<<>>) EXCEPT ![16] = Num(2)]
    /\ last.op = "xy01mul"
    /\ b = a
    /\ Vec2_xy01times(ElementOf(a, 2, 0), mat) = <<Q(1, 2), Num(1)>>

\* The four bulk transforms agree with the scalar ones for every matrix
\* whose storage[12..15] is (0, 0, 0, 1), and xy00mul and xyz0mul for every
\* matrix.
C16_ExceptProjective ==
    LET affine(m) ==
            \/ last.op \in {"xy00mul", "xyz0mul"}
            \/ <<S(m, 12), S(m, 13), S(m, 14), S(m, 15)>> = <<Zero, Zero, Zero, One>>
    IN  BulkIsScalar(affine)

----------------------------------------------------------------------------
(***************************************************************************)
(* random and setRandom. The methods of Vec1..Vec4 repeat the same three   *)
(* statements for every component; rs[i] is what the i-th call of          *)
(* Math.random() returned. The expression for maxa is the one clamp uses.  *)
(***************************************************************************)

\* VecN.random(minVal, maxVal): the storage of the new instance.
Vec_random(n, args, rs) ==
    [i \in 1..n |->
        LET mina == AddArg(Arg(args, 0), Arg(args, 0), Names[i])
            maxa == ClampMax(Arg(args, 1), Names[i])
        IN  Add(Mul(rs[i], Sub(maxa, mina)), mina)]

\* this.setRandom(minVal, maxVal): the receiver's storage afterwards.
Vec_setRandom(n, this, args, rs) ==
    [i \in 1..n |->
        LET mina == AddArg(Arg(args, 0), Arg(args, 0), Names[i])
            maxa == ClampMax(Arg(args, 1), Names[i])
        IN  Add(Mul(rs[i], Sub(maxa, mina)), mina)]

(***************************************************************************)
(* Specification SpecRandom: the program holds a vector a of one class and *)
(* replaces it by VecN.random(...) or calls a.setRandom(...); the bounds   *)
(* are omitted, numbers, or object literals with some of the fields. c     *)
(* holds the values Math.random() returned during the call.                *)
(***************************************************************************)
MaxRandoms == 1
MaxUpper == 3

\* The values of Math.random(): 0, 1/2, 3/4.
RandomValues == {Zero, Q(1, 2), Q(3, 4)}

LowerBounds == {JsNum(Zero), JsNum(Num(-1)), Obj([x |-> -2, y |-> -3]), Obj([y |-> 0, w |-> 1])}

UpperBounds == {JsNum(Zero), JsNum(One), JsNum(Num(MaxUpper)), Obj([x |-> 3, y |-> 4]), Obj([x |-> 1, z |-> 2, w |-> 2])}

RandomArgs == {<<>>} \cup {<<lo>> : lo \in LowerBounds} \cup {<<lo, hi>> : lo \in LowerBounds, hi \in UpperBounds}

RandomInit ==
    /\ cls \in 1..4
    /\ a = Vec_new(cls, <<>>)
    /\ b = <<>>
    /\ c = <<>>
    /\ mat = Mat4_new(<<>>)
    /\ last = Call("new", <<>>)
    /\ steps = 0

\* a = VecN.random(min, max)
Random ==
    /\ steps < MaxRandoms
    /\ \E args \in RandomArgs, rs \in VectorsOver(cls, RandomValues) :
          /\ a' = Vec_random(cls, args, rs)
          /\ c' = rs
          /\ last' = Call("random", args)
    /\ steps' = steps + 1
    /\ UNCHANGED <<cls, b, mat>>

\* a.setRandom(min, max)
SetRandom ==
    /\ steps < MaxRandoms
    /\ \E args \in RandomArgs, rs \in VectorsOver(cls, RandomValues) :
          /\ a' = Vec_setRandom(cls, a, args, rs)
          /\ c' = rs
          /\ last' = Call("setRandom", args)
    /\ steps' = steps + 1
    /\ UNCHANGED <<cls, b, mat>>

RandomNext == Random \/ SetRandom

SpecRandom == RandomInit /\ [][RandomNext]_vars

\* The end of the range the argument at position k gives for component i:
\* the number, the field of the object, or the default when the argument or
\* the field is omitted.
RangeEnd(args, k, i, default) ==
    IF k > Len(args) THEN default
    ELSE IF args[k].k = "number" THEN args[k].v
    ELSE IF Names[i] \in DOMAIN args[k].f THEN args[k].f[Names[i]].v
    ELSE default

\* After random or setRandom with the arguments admitted, every component
\* is min + r * (max - min), and in [min, max) when min < max.
RandomInRange(admitted(_)) ==
    (last.op \in {"random", "setRandom"} /\ admitted(last.args)) =>
        \A i \in 1..cls :
            LET lo == RangeEnd(last.args, 1, i, Zero)
                hi == RangeEnd(last.args, 2, i, One)
            IN  /\ a[i] = Add(lo, Mul(c[i], Sub(hi, lo)))
                /\ Lt(lo, hi) => (Le(lo, a[i]) /\ Lt(a[i], hi))

\* C18: random range with defaults. With the random source returning r in
\* [0, 1), every component i of VecN.random(minVal, maxVal) and of
\* setRandom(minVal, maxVal) equals min_i + r * (max_i - min_i) and lies in
\* [min_i, max_i) when min_i < max_i, where an omitted bound - the whole
\* argument or the field of one axis - is 0 for the lower and 1 for the
\* upper end.
C18_RandomRange ==
    LET any(args) == TRUE
    IN  RandomInRange(any)

\* Vec4.random() with Math.random() returning 1/2 four times: the new
\* vector holds NaN in every component.
C18_Witness ==
    /\ cls = 4
    /\ last = Call("random", <<>>)
    /\ c = <<Q(1, 2), Q(1, 2), Q(1, 2), Q(1, 2)>>
    /\ a = <<NaN, NaN, NaN, NaN>>

\* The range holds whenever maxVal is passed, with the defaults for the
\* fields an object leaves out.
C18_ExceptUpperOmitted ==
    LET both(args) == Len(args) = 2
    IN  RandomInRange(both)

----------------------------------------------------------------------------
(***************************************************************************)
(* Sampler2D and SamplerCube. A sampler is a record with the fields the    *)
(* constructor assigns; gl is the sequence of the calls made on the        *)
(* rendering context so far. activeTexture is recorded with the value it   *)
(* adds to gl.TEXTURE0. commit gives the context afterwards and the error  *)
(* thrown, if any.                                                         *)
(***************************************************************************)
Null == [k |-> "null"]

\* The conversion a store to an Int32Array and a GLint parameter apply:
\* undefined and NaN become 0, a fraction is cut off.
ToInt32(u) ==
    LET q == ToNumber(u)
    IN  IF q[2] = 0 THEN 0
        ELSE IF q[1] < 0 THEN -((-q[1]) \div q[2])
        ELSE q[1] \div q[2]

\* new Int32Array(values)
Int32Array(values) == [i \in DOMAIN values |-> ToInt32(values[i])]

\* A WebGLTexture handle: an object without a glTexture property.
WebGLTexture(id) == [k |-> "WebGLTexture", id |-> id]

\* An object with the property glTexture, as the texture classes of an
\* application have.
Texture(glTexture) == [k |-> "object", f |-> [glTexture |-> glTexture]]

NoError == "none"

GlCall(f, args) == [f |-> f, args |-> args]

\* texture && texture.glTexture || texture || null
AssignedTexture(texture) ==
    JsOr(JsOr(JsAnd(texture, Prop(texture, "glTexture")), texture), Null)

\* new Sampler2D(textureUnit): storage is an Int32Array of one element.
Sampler2D_new(textureUnit) == [glTexture |-> Null, storage |-> Int32Array(<<textureUnit>>)]

Sampler2D_set(this, texture) == [this EXCEPT !.glTexture = AssignedTexture(texture)]

\* commit that uploads the unit before it looks at the texture.
Sampler2D_commit_uploadFirst(this, gl, uniformLocation) ==
    IF Truthy(this.glTexture)
    THEN [gl |-> gl \o <<GlCall("uniform1iv", <<uniformLocation, this.storage>>),
                         GlCall("activeTexture", <<JsNum(Num(this.storage[1]))>>),
                         GlCall("bindTexture", <<"TEXTURE_2D", this.glTexture>>)>>,
          error |-> NoError]
    ELSE [gl |-> gl \o <<GlCall("uniform1iv", <<uniformLocation, this.storage>>)>>,
          error |-> "No texture bound to uniform Sampler2D."]

Sampler2D_commit(this, gl, uniformLocation) ==
    IF Truthy(this.glTexture)
    THEN [gl |-> gl \o <<GlCall("uniform1iv", <<uniformLocation, this.storage>>),
                         GlCall("activeTexture", <<JsNum(Num(this.storage[1]))>>),
                         GlCall("bindTexture", <<"TEXTURE_2D", this.glTexture>>)>>,
          error |-> NoError]
    ELSE [gl |-> gl, error |-> "No texture bound to uniform Sampler2D."]

SamplerCube_new(textureUnit) == [glTexture |-> Null, textureUnit |-> textureUnit]

SamplerCube_set(this, texture) == [this EXCEPT !.glTexture = AssignedTexture(texture)]

SamplerCube_commit(this, gl, uniformLocation) ==
    IF Truthy(this.glTexture)
    THEN [gl |-> gl \o <<GlCall("uniform1i", <<uniformLocation, this.textureUnit>>),
                         GlCall("activeTexture", <<this.textureUnit>>),
                         GlCall("bindTexture", <<"TEXTURE_CUBE_MAP", this.glTexture>>)>>,
          error |-> NoError]
    ELSE [gl |-> gl, error |-> "No texture bound to uniform SamplerCube."]

(***************************************************************************)
(* Specification SpecSampler: the program constructs one sampler (cls is   *)
(* its class, a the sampler) and calls set and commit on it in any order,  *)
(* catching what commit throws. b is the rendering context's call          *)
(* sequence, c the error of the last commit, mat the unit passed to the    *)
(* constructor and the argument of the latest set (Never before the first).*)
(***************************************************************************)
MaxUnit == 2
MaxSamplerOps == 4

\* What the program passes to set.
Textures ==
    {Null, Undefined, WebGLTexture(1), WebGLTexture(2),
     Texture(WebGLTexture(1)), Texture(Null)}

Locations == {"location1", "location2"}

Never == [k |-> "never"]

SamplerInit ==
    /\ cls \in {"Sampler2D", "SamplerCube"}
    /\ \E unit \in 0..MaxUnit :
          /\ a = IF cls = "Sampler2D" THEN Sampler2D_new(JsNum(Num(unit)))
                 ELSE SamplerCube_new(JsNum(Num(unit)))
          /\ mat = [unit |-> unit, given |-> Never]
          /\ last = Call("new", <<unit>>)
    /\ b = <<>>
    /\ c = NoError
    /\ steps = 0

\* sampler.set(texture) on a sampler of the class has left the value.
SamplerSets(class, texture, value) ==
    /\ steps < MaxSamplerOps
    /\ cls = class
    /\ a' = value
    /\ mat' = [mat EXCEPT !.given = texture]
    /\ last' = Call("set", <<texture>>)
    /\ steps' = steps + 1
    /\ UNCHANGED <<cls, b, c>>

\* sampler.commit(gl, uniformLocation) on a sampler of the class.
SamplerCommits(class, uniformLocation, outcome) ==
    /\ steps < MaxSamplerOps
    /\ cls = class
    /\ b' = outcome.gl
    /\ c' = outcome.error
    /\ last' = Call("commit", <<uniformLocation>>)
    /\ steps' = steps + 1
    /\ UNCHANGED <<cls, a, mat>>

Sampler2DSet == \E texture \in Textures : SamplerSets("Sampler2D", texture, Sampler2D_set(a, texture))

Sampler2DCommit ==
    \E uniformLocation \in Locations :
        SamplerCommits("Sampler2D", uniformLocation, Sampler2D_commit(a, b, uniformLocation))

SamplerCubeSet == \E texture \in Textures : SamplerSets("SamplerCube", texture, SamplerCube_set(a, texture))

SamplerCubeCommit ==
    \E uniformLocation \in Locations :
        SamplerCommits("SamplerCube", uniformLocation, SamplerCube_commit(a, b, uniformLocation))

SamplerNext == Sampler2DSet \/ Sampler2DCommit \/ SamplerCubeSet \/ SamplerCubeCommit

SpecSampler == SamplerInit /\ [][SamplerNext]_vars

\* No texture is assigned: set was never called, or the latest set passed
\* null or undefined.
Unassigned == mat.given \in {Never, Null, Undefined}

\* The calls made on the context since the step began.
NewCalls == SubSeq(b', Len(b) + 1, Len(b'))

\* The unit a call uploads or activates.
UnitIn(call) ==
    IF call.f = "uniform1iv" THEN call.args[2][1] ELSE ToInt32(call.args[Len(call.args)])

\* C19: an unbound sampler's commit is fatal and has no side effect. Over
\* any sequence of set(texture) and commit calls on a Sampler2D or a
\* SamplerCube, commit throws, before calling any function of the graphics
\* context, exactly when no texture is assigned (never set, or last set
\* with null or undefined); otherwise it uploads the sampler's texture unit
\* index to the uniform location and binds the assigned texture to that
\* unit.
C19_UnboundCommitThrows ==
    [][
        last'.op = "commit" =>
            IF Unassigned
            THEN c' # NoError /\ b' = b
            ELSE /\ c' = NoError
                 /\ Len(NewCalls) = 3
                 /\ NewCalls[1].f \in {"uniform1i", "uniform1iv"}
                 /\ NewCalls[1].args[1] = last'.args[1]
                 /\ UnitIn(NewCalls[1]) = mat.unit
                 /\ NewCalls[2].f = "activeTexture"
                 /\ UnitIn(NewCalls[2]) = UnitIn(NewCalls[1])
                 /\ NewCalls[3].f = "bindTexture"
                 /\ NewCalls[3].args[1] = (IF cls = "Sampler2D" THEN "TEXTURE_2D" ELSE "TEXTURE_CUBE_MAP")
                 /\ mat.given.k = "WebGLTexture" => NewCalls[3].args[2] = mat.given
                 /\ (mat.given.k = "object" /\ mat.given.f.glTexture # Null) =>
                        NewCalls[3].args[2] = mat.given.f.glTexture
    ]_vars

\* A Sampler2D with unit 1 was given a texture and committed, then given
\* null, and the second commit threw: the context holds the three calls of
\* the first commit only.
C19_Witness ==
    /\ cls = "Sampler2D"
    /\ mat = [unit |-> 1, given |-> Null]
    /\ last.op = "commit"
    /\ last.args = <<"location2">>
    /\ c = "No texture bound to uniform Sampler2D."
    /\ b = <<GlCall("uniform1iv", <<"location1", <<1>>>>),
             GlCall("activeTexture", <<JsNum(Num(1))>>),
             GlCall("bindTexture", <<"TEXTURE_2D", WebGLTexture(2)>>)>>

----------------------------------------------------------------------------
(***************************************************************************)
(* SamplerCubeArray and UniformReflection. A program's active uniforms are *)
(* a sequence of records with the type and size gl.getActiveUniform        *)
(* reports; the uniforms have distinct names outside structs, so the       *)
(* target object gets one reflection property per uniform, kept here at    *)
(* the uniform's index, and the uniform's index stands for its location.   *)
(* A reflection object is a record with its class and its fields.          *)
(***************************************************************************)

\* new SamplerCubeArray(size, baseTextureUnit): elements[i] is the glTexture
\* of the element this[i].
SamplerCubeArray_new(size, baseTextureUnit) ==
    [length   |-> size,
     storage  |-> Int32Array([i \in 1..size |-> JsNum(Add(Num(i - 1), ToNumber(baseTextureUnit)))]),
     elements |-> [i \in 1..size |-> Null]]

RECURSIVE BindEach(_, _)
\* The calls of the loop in SamplerCubeArray.prototype.commit from element i on.
BindEach(this, i) ==
    IF i > this.length THEN <<>>
    ELSE <<GlCall("activeTexture", <<JsNum(Num(this.storage[i]))>>),
           GlCall("bindTexture", <<"TEXTURE_CUBE_MAP", this.elements[i]>>)>> \o BindEach(this, i + 1)

SamplerCubeArray_commit(this, gl, uniformLocation) ==
    [gl |-> gl \o <<GlCall("uniform1iv", <<uniformLocation, this.storage>>)>> \o BindEach(this, 1),
     error |-> NoError]

\* Vec1.prototype.commit
Vec1_commit(this, gl, uniformLocation) ==
    [gl |-> gl \o <<GlCall("uniform1fv", <<uniformLocation, this>>)>>, error |-> NoError]

Reflected(class, fields) == [class |-> class, fields |-> fields]

\* UniformReflection.makeVar with the factories float, sampler2D and
\* samplerCube: single floats, single samplers and arrays of cube samplers.
UniformReflection_makeVar(type, arraySize, samplerIndex) ==
    CASE type = "FLOAT"        -> Reflected("Vec1", Vec_new(1, <<>>))
      [] type = "SAMPLER_2D"   -> Reflected("Sampler2D", Sampler2D_new(samplerIndex))
      [] type = "SAMPLER_CUBE" ->
            IF arraySize = 1 THEN Reflected("SamplerCube", SamplerCube_new(samplerIndex))
            ELSE Reflected("SamplerCubeArray", SamplerCubeArray_new(arraySize, samplerIndex))

\* property.commit(gl, location, textureUnitCount): none of the commit
\* methods has a third parameter.
Reflected_commit(property, gl, location, textureUnitCount) ==
    CASE property.class = "Vec1"        -> Vec1_commit(property.fields, gl, location)
      [] property.class = "Sampler2D"   -> Sampler2D_commit(property.fields, gl, location)
      [] property.class = "SamplerCube" -> SamplerCube_commit(property.fields, gl, location)
      [] property.class = "SamplerCubeArray" -> SamplerCubeArray_commit(property.fields, gl, location)

IsSampler(glUniform) == glUniform.type \in {"SAMPLER_2D", "SAMPLER_CUBE"}

\* addProperties(gl, glProgram, target) of 2019 with an empty target: the
\* properties defined on the target. makeVar is called without samplerIndex.
UniformReflection_addProperties(uniforms) ==
    [properties |-> [i \in DOMAIN uniforms |->
                        UniformReflection_makeVar(uniforms[i].type, uniforms[i].size, Undefined)],
     commitUniforms |-> FALSE,
     error |-> NoError]

RECURSIVE CommitLoop(_, _, _, _, _)
\* The loop of commitProperties from uniform i on, with the calls made so
\* far and the value of textureUnitCount; a throwing commit ends it.
CommitLoop(uniforms, source, i, gl, textureUnitCount) ==
    IF i > Len(uniforms) THEN [gl |-> gl, error |-> NoError]
    ELSE LET count   == IF IsSampler(uniforms[i]) THEN textureUnitCount + uniforms[i].size
                        ELSE textureUnitCount
             outcome == Reflected_commit(source[i], gl, i, count)
         IN  IF outcome.error # NoError THEN outcome
             ELSE CommitLoop(uniforms, source, i + 1, outcome.gl, count)

UniformReflection_commitProperties(gl, uniforms, source) == CommitLoop(uniforms, source, 1, gl, 0)

\* The older addProperties(target, gl, glProgram): the statement
\* textureUnitCount += uniform.size reads a variable that is declared
\* nowhere, so the first sampler uniform ends the call with a
\* ReferenceError, after the properties of the uniforms before it and
\* before commitUniforms is defined.
UniformReflection_addProperties_older(uniforms) ==
    LET samplers == {i \in DOMAIN uniforms : IsSampler(uniforms[i])}
        built    == IF samplers = {} THEN Len(uniforms)
                    ELSE (CHOOSE i \in samplers : \A j \in samplers : i <= j) - 1
    IN  [properties |-> [i \in 1..built |->
                            UniformReflection_makeVar(uniforms[i].type, uniforms[i].size, Undefined)],
         commitUniforms |-> samplers = {},
         error |-> IF samplers = {} THEN NoError ELSE "ReferenceError: uniform is not defined"]

RECURSIVE CommitEach(_, _, _)
\* target.commitUniforms(gl): every property is committed to its location.
CommitEach(target, i, gl) ==
    IF i > Len(target) THEN [gl |-> gl, error |-> NoError]
    ELSE LET outcome == Reflected_commit(target[i], gl, i, Undefined)
         IN  IF outcome.error # NoError THEN outcome
             ELSE CommitEach(target, i + 1, outcome.gl)

(***************************************************************************)
(* Specification SpecReflect: the program reflects the active uniforms of  *)
(* one WebGL program (a), assigns a texture to every sampler and commits.  *)
(* cls is the file of the UniformReflection in use, b the target object, c *)
(* the calls the latest commit made on the rendering context, mat the      *)
(* error of the latest call.                                               *)
(***************************************************************************)
MaxUniforms == 3
MaxCubes == 2
MaxCommits == 2

GlUniform(type, size) == [type |-> type, size |-> size]

ActiveUniforms ==
    {GlUniform("FLOAT", 1), GlUniform("SAMPLER_2D", 1), GlUniform("SAMPLER_CUBE", 1),
     GlUniform("SAMPLER_CUBE", MaxCubes)}

Programs == UNION {VectorsOver(n, ActiveUniforms) : n \in 2..MaxUniforms}

ReflectInit ==
    /\ cls \in {"part_001", "UniformReflection.js"}
    /\ a \in Programs
    /\ b = [properties |-> <<>>, commitUniforms |-> FALSE, error |-> NoError]
    /\ c = <<>>
    /\ mat = NoError
    /\ last = Call("new", <<>>)
    /\ steps = 0

\* target = UniformReflection.addProperties(gl, glProgram, {})
AddProperties ==
    /\ cls = "part_001"
    /\ last.op = "new"
    /\ b' = UniformReflection_addProperties(a)
    /\ mat' = b'.error
    /\ last' = Call("addProperties", <<>>)
    /\ UNCHANGED <<cls, a, c, steps>>

\* UniformReflection.addProperties(target, gl, glProgram)
AddPropertiesOlder ==
    /\ cls = "UniformReflection.js"
    /\ last.op = "new"
    /\ b' = UniformReflection_addProperties_older(a)
    /\ mat' = b'.error
    /\ last' = Call("addProperties", <<>>)
    /\ UNCHANGED <<cls, a, c, steps>>

\* The sampler with a texture of its own: set(texture) on a sampler, and on
\* every element of an array; texture i * MaxCubes + j for element j of
\* property i.
WithTexture(property, i) ==
    CASE property.class = "Sampler2D" ->
            Reflected("Sampler2D", Sampler2D_set(property.fields, WebGLTexture(i * MaxCubes)))
      [] property.class = "SamplerCube" ->
            Reflected("SamplerCube", SamplerCube_set(property.fields, WebGLTexture(i * MaxCubes)))
      [] property.class = "SamplerCubeArray" ->
            Reflected("SamplerCubeArray",
                      [property.fields EXCEPT !.elements =
                          [j \in 1..property.fields.length |->
                              SamplerCube_set(SamplerCube_new(Undefined), WebGLTexture(i * MaxCubes + j - 1)).glTexture]])
      [] OTHER -> property

\* The program calls set on every sampler of the target.
AssignTextures ==
    /\ last.op = "addProperties"
    /\ b' = [b EXCEPT !.properties = [i \in DOMAIN b.properties |-> WithTexture(b.properties[i], i)]]
    /\ last' = Call("set", <<>>)
    /\ UNCHANGED <<cls, a, c, mat, steps>>

\* UniformReflection.commitProperties(gl, glProgram, target)
CommitProperties ==
    /\ cls = "part_001"
    /\ last.op \in {"set", "commitProperties"}
    /\ steps < MaxCommits
    /\ LET outcome == UniformReflection_commitProperties(<<>>, a, b.properties)
       IN  c' = outcome.gl /\ mat' = outcome.error
    /\ last' = Call("commitProperties", <<>>)
    /\ steps' = steps + 1
    /\ UNCHANGED <<cls, a, b>>

\* target.commitUniforms(gl), when addProperties has defined it
CommitUniforms ==
    /\ cls = "UniformReflection.js"
    /\ last.op \in {"set", "commitUniforms"}
    /\ b.commitUniforms
    /\ steps < MaxCommits
    /\ LET outcome == CommitEach(b.properties, 1, <<>>)
       IN  c' = outcome.gl /\ mat' = outcome.error
    /\ last' = Call("commitUniforms", <<>>)
    /\ steps' = steps + 1
    /\ UNCHANGED <<cls, a, b>>

ReflectNext ==
    AddProperties \/ AddPropertiesOlder \/ AssignTextures \/ CommitProperties \/ CommitUniforms

SpecReflect == ReflectInit /\ [][ReflectNext]_vars

RECURSIVE Uploads(_)
\* The texture unit indices the calls upload to sampler uniforms, in order.
Uploads(gl) ==
    IF gl = <<>> THEN <<>>
    ELSE LET call == Head(gl)
         IN  (CASE call.f = "uniform1iv" -> call.args[2]
                [] call.f = "uniform1i"  -> <<ToInt32(call.args[2])>>
                [] OTHER                 -> <<>>) \o Uploads(Tail(gl))

RECURSIVE Activations(_)
\* The units the calls make active before binding a texture, in order.
Activations(gl) ==
    IF gl = <<>> THEN <<>>
    ELSE (IF Head(gl).f = "activeTexture" THEN <<ToInt32(Head(gl).args[1])>> ELSE <<>>)
         \o Activations(Tail(gl))

Distinct(seq) == \A i, j \in DOMAIN seq : i # j => seq[i] # seq[j]

SamplerUniforms == {i \in DOMAIN a : IsSampler(a[i])}

\* C20: distinct texture units. For every program whose active uniforms
\* contain two or more sampler uniforms, all with textures assigned, after
\* the reflection objects are built by addProperties and committed by
\* commitProperties (or by commitUniforms of the older addProperties), no
\* two sampler elements are uploaded with, or bound to, the same texture
\* unit index.
C20_DistinctTextureUnits ==
    (/\ last.op \in {"commitProperties", "commitUniforms"}
     /\ Cardinality(SamplerUniforms) >= 2) =>
        /\ Distinct(Uploads(c))
        /\ Distinct(Activations(c))

\* A program with two sampler2D uniforms has been reflected and committed:
\* unit 0 was uploaded to both locations and both textures were bound to
\* unit 0.
C20_Witness ==
    /\ cls = "part_001"
    /\ a = <<GlUniform("SAMPLER_2D", 1), GlUniform("SAMPLER_2D", 1)>>
    /\ last.op = "commitProperties"
    /\ mat = NoError
    /\ Uploads(c) = <<0, 0>>
    /\ Activations(c) = <<0, 0>>

\* Every commit that happens uploads unit 0 only, and the older
\* addProperties never gets to define commitUniforms for a program with a
\* sampler.
C20_AllUnitsZero ==
    /\ last.op \in {"commitProperties", "commitUniforms"} =>
          \A i \in DOMAIN Uploads(c) : Uploads(c)[i] = 0
    /\ (cls = "UniformReflection.js" /\ last.op # "new" /\ SamplerUniforms # {}) =>
          (~b.commitUniforms /\ b.error # NoError)

----------------------------------------------------------------------------
(***************************************************************************)
(* length, normalize, direction, setNormalized of Vec2..Vec4 and the cross *)
(* products of Vec3. The methods repeat one statement per component; n is  *)
(* the number of components.                                               *)
(***************************************************************************)

RECURSIVE SumOfSquares(_, _)
SumOfSquares(this, n) ==
    IF n = 1 THEN Mul(this[1], this[1])
    ELSE Add(SumOfSquares(this, n - 1), Mul(this[n], this[n]))

Vec_length2(n, this) == SumOfSquares(this, n)

Vec_length(n, this) == MathSqrt(Vec_length2(n, this))

\* this.normalize(): the receiver's storage afterwards.
Vec_normalize(n, this) ==
    LET l == Vec_length(n, this)
    IN  [i \in 1..n |-> Div(this[i], l)]

\* this.direction(): the storage of the new instance.
Vec_direction(n, this) ==
    LET l == Vec_length(n, this)
    IN  [i \in 1..n |-> Div(this[i], l)]

\* this.setNormalized(b) with the storage bb of b.
Vec_setNormalized(n, this, bb) ==
    LET l == Vec_length(n, bb)
    IN  [i \in 1..n |-> Div(bb[i], l)]

\* this.cross(u, v, s): the storage of the new instance.
Vec3_cross(this, args) ==
    LET u == Arg(args, 0)  v == Arg(args, 1)  s == Arg(args, 2)
        op2x == AddArg(u, u, "x")
        op2y == AddArg(u, v, "y")
        op2z == AddArg(u, s, "z")
    IN  <<Sub(Mul(this[2], op2z), Mul(this[3], op2y)),
          Sub(Mul(this[3], op2x), Mul(this[1], op2z)),
          Sub(Mul(this[1], op2y), Mul(this[2], op2x))>>

\* this.setVectorProduct(b, c) with b and c distinct from this.
Vec3_setVectorProduct(this, bb, cc) ==
    <<Sub(Mul(bb[2], cc[3]), Mul(bb[3], cc[2])),
      Sub(Mul(bb[3], cc[1]), Mul(bb[1], cc[3])),
      Sub(Mul(bb[1], cc[2]), Mul(bb[2], cc[1]))>>

(***************************************************************************)
(* Specification SpecFrame: where the methods of a vector write. a is the  *)
(* heap of buffers; b holds the typed arrays of the objects of the         *)
(* program: the receiver this, which is array.at(0) of a VecNArray(2) or a *)
(* vector of its own, the operand, which is array.at(1) or a vector of its *)
(* own, a second operand other, the matrix m, and the result of the last   *)
(* allocating call. Buffer 1 is the array's, 2 to 5 are those of the       *)
(* receiver, the operand, the second operand and the matrix.               *)
(***************************************************************************)
MaxFrameOps == 2

\* Receivers with a rational length, by class.
FrameReceivers(n) ==
    CASE n = 1 -> {<<Num(2)>>, <<Num(-3)>>}
      [] n = 2 -> {<<Num(3), Num(4)>>, <<Num(0), Num(-2)>>}
      [] n = 3 -> {<<Num(2), Num(3), Num(6)>>, <<Num(1), Num(2), Num(2)>>}
      [] n = 4 -> {<<Num(1), Num(1), Num(1), Num(1)>>, <<Num(2), Num(4), Num(5), Num(6)>>}

FrameOperands(n) == {[i \in 1..n |-> Num(i + 1)], [i \in 1..n |-> Q(1, i + 1)]}

NoTypedArray == Window(0, 0, 0)

FrameInit ==
    /\ cls \in 1..4
    /\ \E this \in FrameReceivers(cls), operand \in FrameOperands(cls) :
          a = <<this \o operand, this, operand, [i \in 1..cls |-> Num(-i)],
                Mat4Of(<<2, 0, 1, 0,  1, 1, 0, 1,  0, 3, 1, 0,  1, 0, 2, 2>>)>>
    /\ LET array == Array_new(<<>>, cls, 2)
       IN  \E this \in {Array_at(array, cls, 0).storage, Window(2, 0, cls)},
              operand \in {Array_at(array, cls, 1).storage, Window(3, 0, cls)} :
               b = [this |-> this, operand |-> operand, other |-> Window(4, 0, cls),
                    m |-> Window(5, 0, 16), result |-> NoTypedArray]
    /\ c = <<>>
    /\ mat = <<>>
    /\ last = Call("new", <<>>)
    /\ steps = 0

\* The numbers the methods read.
This == Contents(a, b.this, cls)

Operand == Contents(a, b.operand, cls)

Other == Contents(a, b.other, cls)

Matrix == Contents(a, b.m, 16)

\* The call stores the values through the typed array of the receiver
\* instead of a new one, and returns the receiver.
Returns_receiver(n, op, vals) ==
    /\ steps < MaxFrameOps
    /\ cls \in n
    /\ a' = Store(a, b.this, vals)
    /\ b' = [b EXCEPT !.result = b.this]
    /\ last' = Call(op, <<>>)
    /\ steps' = steps + 1
    /\ UNCHANGED <<cls, c, mat>>

\* result.storage = new Float32Array(...); result.storage[i] = vals[i];
\* return result, for the classes in n.
Returns(n, op, vals) ==
    /\ steps < MaxFrameOps
    /\ cls \in n
    /\ a' = Append(a, vals)
    /\ b' = [b EXCEPT !.result = Window(Len(a) + 1, 0, Len(vals))]
    /\ last' = Call(op, <<>>)
    /\ steps' = steps + 1
    /\ UNCHANGED <<cls, c, mat>>

\* this.storage[i] = vals[i]; return this, for the classes in n.
Writes(n, op, vals) ==
    /\ steps < MaxFrameOps
    /\ cls \in n
    /\ a' = Store(a, b.this, vals)
    /\ last' = Call(op, <<>>)
    /\ steps' = steps + 1
    /\ UNCHANGED <<cls, b, c, mat>>

\* this.clone(): new Float32Array(this.storage)
FrameClone == Returns(1..4, "clone", Contents(a, b.this, b.this.len))

FramePlus == Returns(1..4, "plus", Vec_plus(cls, This, <<VecObj(Operand)>>))

FrameMinus == Returns(1..4, "minus", Vec_minus(cls, This, <<VecObj(Operand)>>))

FrameTimes == Returns(1..4, "times", Vec_times(cls, This, <<VecObj(Operand)>>))

FrameOver == Returns(1..4, "over", Vec_over(cls, This, <<VecObj(Operand)>>))

FrameDirection == Returns(2..4, "direction", Vec_direction(cls, This))

FrameCross == Returns({3}, "cross", Vec3_cross(This, <<VecObj(Operand)>>))

FrameXy01times == Returns({2}, "xy01times", Vec2_xy01times(This, Matrix))

FrameXy00times == Returns({2}, "xy00times", Vec2_xy00times(This, Matrix))

FrameXyz1times == Returns({3}, "xyz1times", Vec3_xyz1times(This, Matrix))

FrameXyz0times == Returns({3}, "xyz0times", Vec3_xyz0times(This, Matrix))

FrameSet == Writes(1..4, "set", Vec_set(cls, This, <<VecObj(Operand)>>))

FrameAdd == Writes(1..4, "add", Vec_add(cls, This, <<VecObj(Operand)>>))

FrameSub == Writes(1..4, "sub", Vec_sub(cls, This, <<VecObj(Operand)>>))

FrameMul == Writes(1..4, "mul", Vec_mul(cls, This, <<VecObj(Operand)>>))

FrameDiv == Writes(1..4, "div", Vec_div(cls, This, <<VecObj(Operand)>>))

FrameNormalize == Writes(2..4, "normalize", Vec_normalize(cls, This))

FrameClamp == Writes(1..4, "clamp", Vec_clamp(cls, This, Nums(<<0, 1>>)))

FrameSetSum == Writes(1..4, "setSum", Vec_setSum(cls, This, Operand, Other))

FrameSetDifference == Writes(1..4, "setDifference", Vec_setDifference(cls, This, Operand, Other))

FrameSetProduct == Writes(1..4, "setProduct", Vec_setProduct(cls, This, Operand, Other))

FrameSetQuotient == Writes(1..4, "setQuotient", Vec_setQuotient(cls, This, Operand, Other))

FrameSetScaled == Writes(1..4, "setScaled", Vec_setScaled(cls, This, Operand, Num(2)))

FrameSetNormalized == Writes(2..4, "setNormalized", Vec_setNormalized(cls, This, Operand))

FrameSetClamped == Writes(1..4, "setClamped", Vec_setClamped(cls, This, Operand, Nums(<<0, 1>>)))

FrameSetVectorProduct == Writes({3}, "setVectorProduct", Vec3_setVectorProduct(This, Operand, Other))

FrameSetxy01Transformed == Writes({2}, "setxy01Transformed", Vec2_setxy01Transformed(This, Operand, Matrix))

FrameSetxyz0Transformed == Writes({3}, "setxyz0Transformed", Vec3_setxyz0Transformed(This, Operand, Matrix))

FrameNext ==
    \/ FrameClone \/ FramePlus \/ FrameMinus \/ FrameTimes \/ FrameOver
    \/ FrameDirection \/ FrameCross
    \/ FrameXy01times \/ FrameXy00times \/ FrameXyz1times \/ FrameXyz0times
    \/ FrameSet \/ FrameAdd \/ FrameSub \/ FrameMul \/ FrameDiv
    \/ FrameNormalize \/ FrameClamp
    \/ FrameSetSum \/ FrameSetDifference \/ FrameSetProduct \/ FrameSetQuotient
    \/ FrameSetScaled \/ FrameSetNormalized \/ FrameSetClamped \/ FrameSetVectorProduct
    \/ FrameSetxy01Transformed \/ FrameSetxyz0Transformed

SpecFrame == FrameInit /\ [][FrameNext]_vars

AllocatingOps ==
    {"plus", "minus", "times", "over", "direction", "cross",
     "xy01times", "xy00times", "xyz1times", "xyz0times", "clone"}

InPlaceOps ==
    {"set", "add", "sub", "mul", "div", "normalize", "clamp",
     "setSum", "setDifference", "setProduct", "setQuotient", "setScaled",
     "setNormalized", "setClamped", "setVectorProduct",
     "setxy01Transformed", "setxyz0Transformed"}

\* The slots of the heap a typed array covers.
SlotsOf(w) == {<<w.buf, w.off + s>> : s \in 1..w.len}

\* C15: allocating operations are pure and in-place operations touch only
\* the receiver. plus, minus, times, over, direction, cross, xy01times,
\* xy00times, xyz1times, xyz0times and clone return a new instance whose
\* storage shares no slot with the receiver or an operand, also when the
\* receiver is a view of an array, and leave receiver and operands
\* unchanged; set, add, sub, mul, div, normalize, clamp and the setX methods
\* change the receiver's storage only and leave every distinct operand
\* unchanged.
C15_FramesOfMethods ==
    [][
        /\ last'.op \in AllocatingOps =>
              /\ Len(a') = Len(a) + 1
              /\ \A k \in 1..Len(a) : a'[k] = a[k]
              /\ b'.result.buf = Len(a')
              /\ b'.result.len = cls
              /\ SlotsOf(b'.result) \cap
                    (SlotsOf(b.this) \cup SlotsOf(b.operand) \cup SlotsOf(b.other) \cup SlotsOf(b.m)) = {}
              /\ [b' EXCEPT !.result = b.result] = b
        /\ last'.op \in InPlaceOps =>
              /\ Len(a') = Len(a)
              /\ \A k \in 1..Len(a) :
                    /\ Len(a'[k]) = Len(a[k])
                    /\ \A s \in 1..Len(a[k]) : <<k, s>> \notin SlotsOf(b.this) => a'[k][s] = a[k][s]
              /\ b' = b
    ]_vars

\* The receiver (3, 4) is element 0 of an array whose element 1 is the
\* operand (2, 3); direction() has returned (3/5, 4/5) in a buffer of its
\* own and the array still holds 3, 4, 2, 3.
C15_Witness ==
    /\ cls = 2
    /\ last.op = "direction"
    /\ b.this = Window(1, 0, 2)
    /\ b.operand = Window(1, 2, 2)
    /\ a[1] = <<Num(3), Num(4), Num(2), Num(3)>>
    /\ b.result = Window(6, 0, 2)
    /\ a[6] = <<Q(3, 5), Q(4, 5)>>

----------------------------------------------------------------------------
(***************************************************************************)
(* UniformReflection.addProperties and commitProperties over named         *)
(* uniforms. A uniform's name is the sequence of its tokens, e.g.          *)
(* <<"S", ".", "u", "[", "0", "]">>; a reflection variable is a record     *)
(* with its constructor, the length of its storage (undefined for a        *)
(* SamplerCube, which has none), its length property, the number id of the *)
(* allocation that made it and its contents: value counts the writes of    *)
(* the program, glTexture is the texture of a sampler. An object that      *)
(* gains properties is a function from keys to reflection variables or     *)
(* Absent.                                                                 *)
(***************************************************************************)

Absent == [k |-> "absent"]

RECURSIVE BeforeBracket(_)
\* name.split('[')[0]
BeforeBracket(name) ==
    IF name = <<>> \/ Head(name) = "[" THEN <<>>
    ELSE <<Head(name)>> \o BeforeBracket(Tail(name))

RECURSIVE BeforeDot(_)
\* The tokens before the first dot.
BeforeDot(name) ==
    IF name = <<>> \/ Head(name) = "." THEN <<>>
    ELSE <<Head(name)>> \o BeforeDot(Tail(name))

\* The tokens after the first dot.
AfterDot(name) == SubSeq(name, Len(BeforeDot(name)) + 2, Len(name))

RECURSIVE SplitDots(_)
\* name.split('.'): the parts between the dots, in order.
SplitDots(name) ==
    IF \A i \in DOMAIN name : name[i] # "." THEN <<name>>
    ELSE <<BeforeDot(name)>> \o SplitDots(AfterDot(name))

\* new Vec1(), ..., new SamplerCubeArray(arraySize): the constructor, the
\* storage and the length of the new object.
Variable(constructor, storageLength, length) ==
    [constructor |-> constructor, storage |-> storageLength, length |-> length,
     id |-> 0, value |-> 0, glTexture |-> Null]

UniformReflection_float(arraySize) ==
    IF arraySize = 1 THEN Variable("Vec1", JsNum(Num(1)), Undefined)
    ELSE Variable("Vec1Array", JsNum(Num(arraySize)), JsNum(Num(arraySize)))

UniformReflection_vec2(arraySize) ==
    IF arraySize = 1 THEN Variable("Vec2", JsNum(Num(2)), Undefined)
    ELSE Variable("Vec2Array", JsNum(Num(arraySize * 2)), JsNum(Num(arraySize)))

UniformReflection_vec3(arraySize) ==
    IF arraySize = 1 THEN Variable("Vec3", JsNum(Num(3)), Undefined)
    ELSE Variable("Vec3Array", JsNum(Num(arraySize * 3)), JsNum(Num(arraySize)))

\* Vec4Array is not part of the sources: single vec4 uniforms only.
UniformReflection_vec4(arraySize) == Variable("Vec4", JsNum(Num(4)), Undefined)

UniformReflection_mat4(arraySize) ==
    IF arraySize = 1 THEN Variable("Mat4", JsNum(Num(16)), Undefined)
    ELSE Variable("Mat4Array", JsNum(Num(arraySize * 16)), JsNum(Num(arraySize)))

\* Sampler2DArray is not part of the sources: single sampler2D uniforms only.
UniformReflection_sampler2D(arraySize) == Variable("Sampler2D", JsNum(Num(1)), Undefined)

UniformReflection_samplerCube(arraySize) ==
    IF arraySize = 1 THEN Variable("SamplerCube", Undefined, Undefined)
    ELSE Variable("SamplerCubeArray", JsNum(Num(arraySize)), JsNum(Num(arraySize)))

\* makeVar that takes every uniform for a single one.
MakeVar_single(type, arraySize) ==
    CASE type = "FLOAT"        -> UniformReflection_float(1)
      [] type = "FLOAT_VEC2"   -> UniformReflection_vec2(1)
      [] type = "FLOAT_VEC3"   -> UniformReflection_vec3(1)
      [] type = "FLOAT_VEC4"   -> UniformReflection_vec4(1)
      [] type = "FLOAT_MAT4"   -> UniformReflection_mat4(1)
      [] type = "SAMPLER_2D"   -> UniformReflection_sampler2D(1)
      [] type = "SAMPLER_CUBE" -> UniformReflection_samplerCube(1)

\* UniformReflection.makeVar(gl, type, arraySize)
MakeVar(type, arraySize) ==
    CASE type = "FLOAT"        -> UniformReflection_float(arraySize)
      [] type = "FLOAT_VEC2"   -> UniformReflection_vec2(arraySize)
      [] type = "FLOAT_VEC3"   -> UniformReflection_vec3(arraySize)
      [] type = "FLOAT_VEC4"   -> UniformReflection_vec4(arraySize)
      [] type = "FLOAT_MAT4"   -> UniformReflection_mat4(arraySize)
      [] type = "SAMPLER_2D"   -> UniformReflection_sampler2D(arraySize)
      [] type = "SAMPLER_CUBE" -> UniformReflection_samplerCube(arraySize)

\* const reflectionVariable = UniformReflection.makeVar(gl, glUniform.type,
\* glUniform.size || 1): the allocation after `created` earlier ones.
NewVariable(glUniform, created) ==
    [MakeVar(glUniform.type, IF glUniform.size = 0 THEN 1 ELSE glUniform.size)
        EXCEPT !.id = created + 1]

\* nameParts[nameParts.length - 1]
UniformName(glUniform) ==
    SplitDots(BeforeBracket(glUniform.name))[Len(SplitDots(BeforeBracket(glUniform.name)))]

\* nameParts[nameParts.length - 2]; the empty name stands for undefined as
\* well, both are falsy.
StructName(glUniform) ==
    IF Len(SplitDots(BeforeBracket(glUniform.name))) < 2 THEN <<>>
    ELSE SplitDots(BeforeBracket(glUniform.name))[Len(SplitDots(BeforeBracket(glUniform.name))) - 1]

\* The keys of the objects of the model.
PropertyKeys == {<<"u">>, <<"v">>, <<"reflectionName">>}

StructKeys == {<<"S">>}

\* {} and UniformReflection.makeProxy({})
EmptyObject == [key \in PropertyKeys |-> Absent]

NoStructs == [key \in StructKeys |-> Absent]

Outcome(target, structTargets, created, error) ==
    [target |-> target, structTargets |-> structTargets, created |-> created, error |-> error]

IncompatibleError == "Error: Trying to reflect incompatible uniforms"

RECURSIVE AddLoop(_, _, _, _, _)
\* The loop of addProperties (2019) from uniform i on. An error ends it and
\* leaves what the earlier iterations defined.
AddLoop(uniforms, i, target, structTargets, created) ==
    IF i > Len(uniforms) THEN Outcome(target, structTargets, created, NoError)
    ELSE LET reflectionVariable == NewVariable(uniforms[i], created)
             uniformName == UniformName(uniforms[i])
             structName == StructName(uniforms[i])
             structs == IF structName # <<>> /\ structTargets[structName] = Absent
                        THEN [structTargets EXCEPT ![structName] = EmptyObject]
                        ELSE structTargets
             t == IF structName # <<>> THEN structs[structName] ELSE target
         IN  IF t[uniformName] # Absent
             THEN IF t[uniformName].constructor # reflectionVariable.constructor
                  THEN Outcome(target, structs, created + 1, IncompatibleError)
                  ELSE IF t[uniformName].storage = Undefined
                  THEN Outcome(target, structs, created + 1,
                               "TypeError: Cannot read properties of undefined (reading 'length')")
                  ELSE IF t[uniformName].storage # reflectionVariable.storage
                  THEN Outcome(target, structs, created + 1, IncompatibleError)
                  ELSE AddLoop(uniforms, i + 1, target, structs, created + 1)
             ELSE IF structName # <<>>
                  THEN AddLoop(uniforms, i + 1, target,
                               [structs EXCEPT ![structName][uniformName] = reflectionVariable],
                               created + 1)
                  ELSE AddLoop(uniforms, i + 1,
                               [target EXCEPT ![uniformName] = reflectionVariable],
                               structs, created + 1)

\* UniformReflection.addProperties(gl, glProgram, target, structTargets)
AddNamedProperties(uniforms, target, structTargets, created) ==
    AddLoop(uniforms, 1, target, structTargets, created)

\* reflectionName.replace(/^\w*\./, ""): a leading word and its dot go.
WithoutLeadingWord(name) ==
    IF name # <<>> /\ name[1] = "." THEN Tail(name)
    ELSE IF Len(name) >= 2 /\ name[2] = "." THEN Tail(Tail(name))
    ELSE name

\* The name of the property in the older addProperties, with prefix "".
ReflectionName(glUniform) == WithoutLeadingWord(BeforeBracket(glUniform.name))

RECURSIVE AddLoopOlder(_, _, _, _)
\* The loop of the older addProperties from uniform i on. The test of an
\* existing property reads target.reflectionName, the property whose name
\* is "reflectionName"; Object.defineProperty on a property that an earlier
\* defineProperty made (not writable, not configurable) throws a TypeError.
AddLoopOlder(uniforms, i, target, created) ==
    IF i > Len(uniforms) THEN Outcome(target, NoStructs, created, NoError)
    ELSE IF IsSampler(uniforms[i])
    THEN Outcome(target, NoStructs, created, "ReferenceError: uniform is not defined")
    ELSE LET reflectionName == ReflectionName(uniforms[i])
             reflectionVariable == NewVariable(uniforms[i], created)
             named == target[<<"reflectionName">>]
         IN  IF named # Absent
             THEN IF \/ named.constructor # reflectionVariable.constructor
                     \/ named.storage # reflectionVariable.storage
                  THEN Outcome(target, NoStructs, created + 1,
                               "Error: Uniform with the same name but different type")
                  ELSE AddLoopOlder(uniforms, i + 1, target, created + 1)
             ELSE IF target[reflectionName] # Absent
                  THEN Outcome(target, NoStructs, created + 1,
                               "TypeError: Cannot redefine property")
                  ELSE AddLoopOlder(uniforms, i + 1,
                                    [target EXCEPT ![reflectionName] = reflectionVariable],
                                    created + 1)

\* The older UniformReflection.addProperties(target, gl, glProgram); the
\* target has commitUniforms already when an earlier call defined it, and
\* defining it again throws.
AddNamedPropertiesOlder(uniforms, target, created, commitUniforms) ==
    LET looped == AddLoopOlder(uniforms, 1, target, created)
    IN  [outcome |-> IF looped.error = NoError /\ commitUniforms
                     THEN [looped EXCEPT !.error = "TypeError: Cannot redefine property: commitUniforms"]
                     ELSE looped,
         commitUniforms |-> commitUniforms \/ looped.error = NoError]

(***************************************************************************)
(* Specification SpecCollide: programs with one active uniform each are    *)
(* reflected one after the other on the same target a and the same         *)
(* structTargets b, and the program writes to the properties in between.   *)
(* cls is the file of the UniformReflection in use; mat holds the error of *)
(* the latest call, the number of reflection variables made so far and     *)
(* whether the target has commitUniforms.                                  *)
(***************************************************************************)
MaxReflections == 2
MaxSize == 3

NamedUniform(name, type, size) == [name |-> name, type |-> type, size |-> size]

UniformNames ==
    {<<"u">>, <<"u", "[", "0", "]">>, <<"S", ".", "u">>, <<"reflectionName">>}

\* The types and sizes whose classes are part of the sources.
UniformShapes ==
    ({"FLOAT"} \X (1..MaxSize))
    \cup ({"FLOAT_VEC2", "FLOAT_VEC3", "FLOAT_MAT4", "SAMPLER_CUBE"} \X (1..2))
    \cup ({"FLOAT_VEC4", "SAMPLER_2D"} \X {1})

CollidingUniforms ==
    {NamedUniform(name, shape[1], shape[2]) : name \in UniformNames, shape \in UniformShapes}

CollideInit ==
    /\ cls \in {"part_001", "UniformReflection.js"}
    /\ a = EmptyObject
    /\ b = NoStructs
    /\ c = <<>>
    /\ mat = [error |-> NoError, created |-> 0, commitUniforms |-> FALSE]
    /\ last = Call("new", <<>>)
    /\ steps = 0

\* UniformReflection.addProperties(gl, glProgram, target)
ReflectUniform ==
    \E glUniform \in CollidingUniforms :
        /\ cls = "part_001"
        /\ steps < MaxReflections
        /\ LET outcome == AddNamedProperties(<<glUniform>>, a, b, mat.created)
           IN  /\ a' = outcome.target
               /\ b' = outcome.structTargets
               /\ mat' = [error |-> outcome.error, created |-> outcome.created,
                          commitUniforms |-> FALSE]
        /\ last' = Call("addProperties", <<glUniform>>)
        /\ steps' = steps + 1
        /\ UNCHANGED <<cls, c>>

\* UniformReflection.addProperties(target, gl, glProgram)
ReflectUniformOlder ==
    \E glUniform \in CollidingUniforms :
        /\ cls = "UniformReflection.js"
        /\ steps < MaxReflections
        /\ LET added == AddNamedPropertiesOlder(<<glUniform>>, a, mat.created, mat.commitUniforms)
           IN  /\ a' = added.outcome.target
               /\ mat' = [error |-> added.outcome.error, created |-> added.outcome.created,
                          commitUniforms |-> added.commitUniforms]
        /\ last' = Call("addProperties", <<glUniform>>)
        /\ steps' = steps + 1
        /\ UNCHANGED <<cls, b, c>>

\* target.u.set(...): the program writes to a property of the target.
WriteProperty ==
    \E key \in PropertyKeys :
        /\ a[key] # Absent
        /\ a[key].value = 0
        /\ a' = [a EXCEPT ![key].value = 1]
        /\ last' = Call("set", <<key>>)
        /\ UNCHANGED <<cls, b, c, mat, steps>>

\* Uniforms.S.u.set(...): the program writes to a property of a struct.
WriteStructProperty ==
    \E struct \in StructKeys, key \in PropertyKeys :
        /\ b[struct] # Absent
        /\ b[struct][key] # Absent
        /\ b[struct][key].value = 0
        /\ b' = [b EXCEPT ![struct][key].value = 1]
        /\ last' = Call("set", <<struct, key>>)
        /\ UNCHANGED <<cls, a, c, mat, steps>>

CollideNext == ReflectUniform \/ ReflectUniformOlder \/ WriteProperty \/ WriteStructProperty

SpecCollide == CollideInit /\ [][CollideNext]_vars

\* (structName ? structSources[structName] : source)[uniformName], Absent
\* when the struct object or the property does not exist.
PropertyOf(source, structSources, glUniform) ==
    IF StructName(glUniform) = <<>> THEN source[UniformName(glUniform)]
    ELSE IF structSources[StructName(glUniform)] = Absent THEN Absent
    ELSE structSources[StructName(glUniform)][UniformName(glUniform)]

\* The property a uniform resolves to, on the target or the struct object
\* the file in use reflects it to; Absent when there is none.
Resolved(target, structTargets, glUniform) ==
    IF cls = "UniformReflection.js" THEN target[ReflectionName(glUniform)]
    ELSE PropertyOf(target, structTargets, glUniform)

\* The constructor or the storage length of the property differs from what
\* the uniform requires.
Incompatible(property, glUniform) ==
    \/ property.constructor # MakeVar(glUniform.type, glUniform.size).constructor
    \/ property.storage # MakeVar(glUniform.type, glUniform.size).storage

\* C21: name collision handling in reflection. Over any sequence of
\* addProperties calls that share a target, when a uniform resolves to a
\* name that already exists on its target object, an Error is thrown if the
\* existing property's constructor or storage length differs from what the
\* new uniform requires; otherwise the existing instance is kept, the same
\* object with its contents untouched, and no error is raised, for every
\* supported uniform type.
C21_CollisionHandling ==
    [][(last'.op = "addProperties" /\ Resolved(a, b, last'.args[1]) # Absent) =>
          IF Incompatible(Resolved(a, b, last'.args[1]), last'.args[1])
          THEN mat'.error # NoError
          ELSE /\ mat'.error = NoError
               /\ Resolved(a', b', last'.args[1]) = Resolved(a, b, last'.args[1])]_vars

\* Two programs with `uniform samplerCube u;` were reflected on one target:
\* the second call ended with a TypeError, and the target holds the
\* SamplerCube of the first call.
C21_Witness ==
    /\ cls = "part_001"
    /\ last = Call("addProperties", <<NamedUniform(<<"u">>, "SAMPLER_CUBE", 1)>>)
    /\ a[<<"u">>].constructor = "SamplerCube"
    /\ a[<<"u">>].id = 1
    /\ mat.created = 2
    /\ mat.error = "TypeError: Cannot read properties of undefined (reading 'length')"

\* What the code does on a collision: the existing instance is always kept;
\* with part_001 the call throws exactly when the property is incompatible
\* or a SamplerCube, which has no storage to compare; the older file throws
\* on every collision.
C21_ExceptCubesAndOlder ==
    [][(last'.op = "addProperties" /\ Resolved(a, b, last'.args[1]) # Absent) =>
          /\ Resolved(a', b', last'.args[1]) = Resolved(a, b, last'.args[1])
          /\ cls = "UniformReflection.js" => mat'.error # NoError
          /\ cls = "part_001" =>
                (mat'.error # NoError <=>
                    \/ Incompatible(Resolved(a, b, last'.args[1]), last'.args[1])
                    \/ Resolved(a, b, last'.args[1]).constructor = "SamplerCube")]_vars

\* property.commit(gl, location, textureUnitCount) of a Sampler2D and of a
\* SamplerCube throws without a texture; the others upload their storage.
CommitThrows(property) ==
    property.constructor \in {"Sampler2D", "SamplerCube"} /\ property.glTexture = Null

Committed(glUniform, property) == [location |-> glUniform.name, id |-> property.id]

RECURSIVE CommitNamedLoop(_, _, _, _, _)
\* The loop of commitProperties from uniform i on: the calls of commit made,
\* each with the location of its uniform, and the error that ended the loop.
CommitNamedLoop(uniforms, i, source, structSources, commits) ==
    IF i > Len(uniforms) THEN [commits |-> commits, error |-> NoError]
    ELSE IF PropertyOf(source, structSources, uniforms[i]) = Absent
    THEN [commits |-> commits,
          error |-> "TypeError: Cannot read properties of undefined (reading 'commit')"]
    ELSE IF CommitThrows(PropertyOf(source, structSources, uniforms[i]))
    THEN [commits |-> Append(commits, Committed(uniforms[i], PropertyOf(source, structSources, uniforms[i]))),
          error |-> "Error: No texture bound to uniform"]
    ELSE CommitNamedLoop(uniforms, i + 1, source, structSources,
             Append(commits, Committed(uniforms[i], PropertyOf(source, structSources, uniforms[i]))))

\* UniformReflection.commitProperties(gl, glProgram, source, structSources)
CommitNamedProperties(uniforms, source, structSources) ==
    CommitNamedLoop(uniforms, 1, source, structSources, <<>>)

\* sampler.set(texture) on every Sampler2D and SamplerCube of an object.
WithTextures(object) ==
    [key \in DOMAIN object |->
        IF object[key] # Absent /\ object[key].constructor \in {"Sampler2D", "SamplerCube"}
        THEN [object[key] EXCEPT !.glTexture = WebGLTexture(object[key].id)]
        ELSE object[key]]

(***************************************************************************)
(* Specification SpecDispatch: the active uniforms cls of one program,     *)
(* with distinct resolved names, are reflected on an empty target a and    *)
(* empty structTargets b, the program assigns textures to the samplers,    *)
(* and commitProperties is called, before or after that. c is the list of  *)
(* the commits of the latest commitProperties, mat as in SpecCollide.      *)
(***************************************************************************)
MaxActive == 2
MaxDispatchCommits == 2

DispatchNames ==
    {<<"u">>, <<"v", "[", "0", "]">>, <<"S", ".", "u">>, <<"S", ".", "v", "[", "0", "]">>}

DispatchUniforms ==
    {NamedUniform(name, shape[1], shape[2]) : name \in DispatchNames, shape \in UniformShapes}

\* The key a uniform is reflected under: the struct and the name.
ResolvedName(glUniform) == <<StructName(glUniform), UniformName(glUniform)>>

DispatchPrograms ==
    {uniforms \in UNION {VectorsOver(n, DispatchUniforms) : n \in 1..MaxActive} :
        \A i, j \in DOMAIN uniforms : i # j => ResolvedName(uniforms[i]) # ResolvedName(uniforms[j])}

DispatchInit ==
    /\ cls \in DispatchPrograms
    /\ a = EmptyObject
    /\ b = NoStructs
    /\ c = <<>>
    /\ mat = [error |-> NoError, created |-> 0, commitUniforms |-> FALSE]
    /\ last = Call("new", <<>>)
    /\ steps = 0

\* UniformReflection.addProperties(gl, glProgram, target)
DispatchAdd ==
    /\ last.op = "new"
    /\ LET outcome == AddNamedProperties(cls, a, b, mat.created)
       IN  /\ a' = outcome.target
           /\ b' = outcome.structTargets
           /\ mat' = [mat EXCEPT !.error = outcome.error, !.created = outcome.created]
    /\ last' = Call("addProperties", <<>>)
    /\ UNCHANGED <<cls, c, steps>>

\* The program calls set(texture) on every sampler of the target and of
\* the struct objects.
DispatchSet ==
    /\ last.op \in {"addProperties", "commitProperties"}
    /\ a' = WithTextures(a)
    /\ b' = [struct \in DOMAIN b |-> IF b[struct] = Absent THEN Absent ELSE WithTextures(b[struct])]
    /\ <<a', b'>> # <<a, b>>
    /\ last' = Call("set", <<>>)
    /\ UNCHANGED <<cls, c, mat, steps>>

\* UniformReflection.commitProperties(gl, glProgram, target)
DispatchCommit ==
    /\ last.op # "new"
    /\ steps < MaxDispatchCommits
    /\ LET outcome == CommitNamedProperties(cls, a, b)
       IN  /\ c' = outcome.commits
           /\ mat' = [mat EXCEPT !.error = outcome.error]
    /\ last' = Call("commitProperties", <<>>)
    /\ steps' = steps + 1
    /\ UNCHANGED <<cls, a, b>>

DispatchNext == DispatchAdd \/ DispatchSet \/ DispatchCommit

SpecDispatch == DispatchInit /\ [][DispatchNext]_vars

\* The single type and the array type of a type tag.
SingleType(type) ==
    CASE type = "FLOAT" -> "Vec1"            [] type = "FLOAT_VEC2" -> "Vec2"
      [] type = "FLOAT_VEC3" -> "Vec3"       [] type = "FLOAT_VEC4" -> "Vec4"
      [] type = "FLOAT_MAT4" -> "Mat4"       [] type = "SAMPLER_2D" -> "Sampler2D"
      [] type = "SAMPLER_CUBE" -> "SamplerCube"

ArrayType(type) ==
    CASE type = "FLOAT" -> "Vec1Array"       [] type = "FLOAT_VEC2" -> "Vec2Array"
      [] type = "FLOAT_VEC3" -> "Vec3Array"  [] type = "FLOAT_MAT4" -> "Mat4Array"
      [] type = "SAMPLER_CUBE" -> "SamplerCubeArray"

\* The name of a uniform without its struct prefix and without a trailing
\* [0], by cases over the names of the model.
PlainName(name) == IF name[1] = "S" THEN <<name[3]>> ELSE <<name[1]>>

InStruct(name) == name[1] = "S"

\* Every uniform has its property: on the target, or on structTargets.S
\* for a uniform named S.f, of the single type when the size is 1 and of
\* the array type with size elements otherwise.
Dispatched ==
    \A i \in DOMAIN cls :
        LET object == IF InStruct(cls[i].name) THEN b[<<"S">>] ELSE a
        IN  /\ object # Absent
            /\ object[PlainName(cls[i].name)] # Absent
            /\ IF cls[i].size = 1
               THEN object[PlainName(cls[i].name)].constructor = SingleType(cls[i].type)
               ELSE /\ object[PlainName(cls[i].name)].constructor = ArrayType(cls[i].type)
                    /\ object[PlainName(cls[i].name)].length = JsNum(Num(cls[i].size))

\* commit was called exactly once per active uniform, on the uniform's
\* property and with the uniform's location.
CommittedOncePerUniform ==
    /\ Len(c) = Len(cls)
    /\ \A i \in DOMAIN cls :
          \E k \in DOMAIN c :
              /\ c[k].location = cls[i].name
              /\ c[k].id = (IF InStruct(cls[i].name) THEN b[<<"S">>] ELSE a)[PlainName(cls[i].name)].id
              /\ \A m \in DOMAIN c : c[m].location = cls[i].name => m = k

Samplers(object) ==
    {key \in DOMAIN object :
        object[key] # Absent /\ object[key].constructor \in {"Sampler2D", "SamplerCube"}}

\* Every Sampler2D and SamplerCube property has a texture.
AllBound ==
    /\ \A key \in Samplers(a) : a[key].glTexture # Null
    /\ \A struct \in DOMAIN b :
          b[struct] # Absent => \A key \in Samplers(b[struct]) : b[struct][key].glTexture # Null

----------------------------------------------------------------------------
(***************************************************************************)
(* The proxies that only warn on a missing property: makeProxy of          *)
(* UniformReflection with its dummy, and onlyWarnOnMissingPropertyAccess   *)
(* with missingPropertyDummy, of which the sources hold two versions. A    *)
(* wrapped target is a function from names to its values or Absent; the    *)
(* values of an expression are the proxy, the wrapped target itself, a     *)
(* value of the target, a dummy and undefined.                             *)
(***************************************************************************)

\* UniformReflection.dummy and missingPropertyDummy, by the file that
\* defines it.
Dummy(file) == [k |-> "dummy", of |-> file]

\* The get trap of a dummy.
Dummy_get(dummy, name) == dummy

\* The apply trap of a dummy.
Dummy_apply(dummy) == dummy

TheProxy == [k |-> "proxy"]

TheTarget == [k |-> "target"]

\* A get trap without the test of `name in target`.
Proxy_get_unguarded(file, target, name) ==
    IF target[name] = Absent THEN Undefined ELSE target[name]

\* The get trap of UniformReflection.makeProxy(target) in part_001, and of
\* onlyWarnOnMissingPropertyAccess(target) in util.js and in part_000 (the
\* same in Vec3Array.js).
Proxy_get(file, target, name) ==
    IF file = "part_001"
    THEN IF target[name] = Absent THEN Dummy(file) ELSE target[name]
    ELSE IF name = "splice" THEN Undefined
    ELSE IF name = (IF file = "util.js" THEN "proxyTarget" ELSE "isProxy") THEN TheTarget
    ELSE IF target[name] = Absent THEN Dummy(file)
    ELSE target[name]

\* value[name] for the values of an expression: the value read, or the
\* error thrown.
Read(file, target, value, name) ==
    CASE value = TheProxy      -> [value |-> Proxy_get(file, target, name), error |-> NoError]
      [] value.k = "dummy"     -> [value |-> Dummy_get(value, name), error |-> NoError]
      [] value = TheTarget     -> [value |-> IF target[name] = Absent THEN Undefined ELSE target[name],
                                   error |-> NoError]
      [] value = Undefined     -> [value |-> Undefined,
                                   error |-> "TypeError: Cannot read properties of undefined"]
      [] OTHER                 -> [value |-> Undefined, error |-> NoError]

\* value(...) for the values of an expression.
Invoke(value) ==
    IF value.k = "dummy" THEN [value |-> Dummy_apply(value), error |-> NoError]
    ELSE [value |-> Undefined, error |-> "TypeError: not a function"]

(***************************************************************************)
(* Specification SpecProxy: the program evaluates chains of property reads *)
(* and calls that start at the proxy of the target a. cls is the file of   *)
(* the proxy, b the value of the expression so far, c the first name the   *)
(* chain read, mat the error thrown, steps the length of the chain.        *)
(***************************************************************************)
MaxChain == 3

ProxyNames == {"u", "w", "splice", "proxyTarget", "isProxy"}

Owned(name) == [k |-> "value", of |-> name]

ProxyInit ==
    /\ cls \in {"part_001", "util.js", "part_000"}
    /\ \E has \in SUBSET ProxyNames :
          a = [name \in ProxyNames |-> IF name \in has THEN Owned(name) ELSE Absent]
    /\ b = TheProxy
    /\ c = ""
    /\ mat = NoError
    /\ last = Call("new", <<>>)
    /\ steps = 0

\* expression.name
ReadName ==
    \E name \in ProxyNames :
        /\ steps < MaxChain
        /\ mat = NoError
        /\ b' = Read(cls, a, b, name).value
        /\ mat' = Read(cls, a, b, name).error
        /\ c' = IF steps = 0 THEN name ELSE c
        /\ last' = Call("get", <<name>>)
        /\ steps' = steps + 1
        /\ UNCHANGED <<cls, a>>

\* expression(...)
InvokeValue ==
    /\ steps > 0
    /\ steps < MaxChain
    /\ mat = NoError
    /\ b' = Invoke(b).value
    /\ mat' = Invoke(b).error
    /\ last' = Call("apply", <<>>)
    /\ steps' = steps + 1
    /\ UNCHANGED <<cls, a, c>>

ProxyNext == ReadName \/ InvokeValue

SpecProxy == ProxyInit /\ [][ProxyNext]_vars

Reserved(file) ==
    CASE file = "part_001" -> {}
      [] file = "util.js"  -> {"splice", "proxyTarget"}
      [] file = "part_000" -> {"splice", "isProxy"}

----------------------------------------------------------------------------
(***************************************************************************)
(* Positional factors of mul, times, div and over, in SpecArgs.            *)
(***************************************************************************)
\* The last call was made with numbers only, a first one at least.
NumbersOnly ==
    /\ Len(last.args) > 0
    /\ \A k \in 1..Len(last.args) : last.args[k].k = "number"

\* What mul, times, div and over of Vec2, Vec3 and Vec4 with numbers must
\* have left: component i combined with argument i when it is supplied and
\* with the first argument when it is omitted, for the calls that exact(u,
\* q) admits by the first argument u and a supplied later argument q.
PositionalFactors(exact(_, _)) ==
    (cls >= 2 /\ last.op \in Multiplying \cup Dividing /\ NumbersOnly) =>
        LET u == last.args[1].v
        IN  \A i \in 1..cls :
                IF i <= Len(last.args)
                THEN exact(u, last.args[i].v) => a[i] = Combined(last.op, b[i], last.args[i].v)
                ELSE a[i] = Combined(last.op, b[i], u)

\* C24: positional factors are used per axis. After mul, times, div or over
\* of Vec2, Vec3 or Vec4 with numeric positional arguments, component i has
\* been multiplied (or divided) by argument i whenever that argument is
\* supplied, a supplied 1 next to another first argument included, and by
\* the first argument only when argument i is omitted.
C24_PositionalFactors ==
    LET any(u, q) == TRUE
    IN  PositionalFactors(any)

\* new Vec2(2, 3).mul(2, 1) has been called and has doubled both components.
C24_Witness ==
    /\ cls = 2
    /\ b = <<Num(2), Num(3)>>
    /\ last = Call("mul", Nums(<<2, 1>>))
    /\ a = <<Num(4), Num(6)>>

\* The property of C24 for the calls whose first argument is not 0 and for
\* the supplied arguments other than 1.
C24_ExceptOneAndZeroFirst ==
    LET exact(u, q) == u # Zero /\ q # One
    IN  PositionalFactors(exact)


----------------------------------------------------------------------------
(***************************************************************************)
(* Specification SpecViews: subarray and its defaults. The program         *)
(* constructs an array of ViewLen elements of one class, with cls the      *)
(* number of slots of an element, takes views of it with subarray(),       *)
(* subarray(begin) and subarray(begin, end), and calls at(i).set(...) on   *)
(* the array and on the views. a is the heap, b the sequence of the        *)
(* objects made, the array first, and c the numbers a view on elements     *)
(* begin..end-1 of the array passes on to the array: a write to element i  *)
(* of such a view is recorded in element begin + i of c. MaxViewOps bounds *)
(* the number of calls in a run.                                           *)
(***************************************************************************)
ViewLen == 2
MaxViewOps == 3

\* ToIntegerOrInfinity of a typed array's subarray: NaN is 0, and a number
\* is truncated toward 0.
ToIntegerOrInfinity(u) ==
    LET q == ToNumber(u)
    IN  IF q[2] = 0 THEN 0
        ELSE IF q[1] < 0 THEN -((-q[1]) \div q[2])
        ELSE q[1] \div q[2]

\* u * k of javascript.
JsTimes(u, k) == JsNum(Mul(ToNumber(u), Num(k)))

\* typedArray.subarray(begin, end) for javascript values: end is the length
\* of the typed array when it is undefined, and only then.
TypedSubarrayOf(w, begin, end) ==
    TypedSubarray(w, ToIntegerOrInfinity(begin),
                  IF end.k = "undefined" THEN w.len ELSE ToIntegerOrInfinity(end))

\* this.subarray(begin, end) of Vec1Array (k = 1), Vec2Array, Vec3Array and
\* Mat4Array, for javascript values: the array object made.
VecArray_subarray(this, k, begin, end) ==
    [kind |-> "subarray", begin |-> begin, end |-> end,
     storage |-> IF k = 1 THEN TypedSubarrayOf(this.storage, begin, end)
                 ELSE TypedSubarrayOf(this.storage, JsTimes(begin, k), JsTimes(end, k))]

\* The argument lists of subarray: none, begin, or begin and end, within
\* the array.
ViewBounds ==
    {<<Undefined, Undefined>>} \cup
    {<<JsNum(Num(i)), Undefined>> : i \in 0..ViewLen} \cup
    {<<JsNum(Num(i)), JsNum(Num(j))>> : i \in 0..ViewLen, j \in 0..ViewLen}

\* The first element of a view, and the one after its last, by the
\* arguments it was made with and their documented defaults.
FirstOf(o) == IF o.kind = "array" \/ o.begin.k = "undefined" THEN 0 ELSE o.begin.v[1]
EndOf(o) == IF o.kind = "array" \/ o.end.k = "undefined" THEN ViewLen ELSE o.end.v[1]

ViewsInit ==
    /\ cls \in ArrayClasses
    /\ a = <<Float32Array(ViewLen * cls)>>
    /\ b = <<Array_new(<<>>, cls, ViewLen)>>
    /\ c = Float32Array(ViewLen * cls)
    /\ mat = Mat4_new(<<>>)
    /\ last = Call("new", <<ViewLen>>)
    /\ steps = 0

\* array.subarray(), array.subarray(begin), array.subarray(begin, end)
ViewSubarray ==
    /\ steps < MaxViewOps
    /\ \E bounds \in ViewBounds :
          /\ (bounds[2].k = "number" => bounds[1].v[1] <= bounds[2].v[1])
          /\ b' = Append(b, VecArray_subarray(b[1], cls, bounds[1], bounds[2]))
          /\ last' = Call("subarray", bounds)
    /\ steps' = steps + 1
    /\ UNCHANGED <<cls, a, c, mat>>

\* b[j].at(index).set(...), on the array or on a view.
ViewSet ==
    /\ steps < MaxViewOps
    /\ \E j \in 1..Len(b), index \in 0..(ViewLen - 1), args \in ElementArgs :
          LET element == Array_at(b[j], cls, index)
              this == Contents(a, element.storage, cls)
              vals == IF cls = 16 THEN Mat4_set(this, args) ELSE Vec_set(cls, this, args)
              target == FirstOf(b[j]) + index
          IN  /\ a' = Store(a, element.storage, vals)
              /\ c' = IF target < EndOf(b[j])
                      THEN [s \in 1..Len(c) |->
                               IF (s - 1) \div cls = target THEN vals[((s - 1) % cls) + 1]
                               ELSE c[s]]
                      ELSE c
              /\ last' = Call("set", <<j, index>> \o args)
    /\ steps' = steps + 1
    /\ UNCHANGED <<cls, b, mat>>

ViewsNext == ViewSubarray \/ ViewSet

SpecViews == ViewsInit /\ [][ViewsNext]_vars

\* When every view made is among those picked, the views cover the elements
\* FirstOf..EndOf-1 of the array and share its storage: the array holds what
\* was written through them, and they read what the array holds.
ViewsShare(picked(_)) ==
    (\A j \in 2..Len(b) : picked(b[j])) =>
        /\ Contents(a, b[1].storage, ViewLen * cls) = c
        /\ \A j \in 2..Len(b) :
              LET o == b[j]
                  n == (EndOf(o) - FirstOf(o)) * cls
              IN  /\ o.storage.len = n
                  /\ Contents(a, o.storage, n) = SubSeq(c, FirstOf(o) * cls + 1, EndOf(o) * cls)

\* C25: subarray views and their defaults. For Vec1Array, Vec2Array,
\* Vec3Array and Mat4Array alike, subarray(begin, end) is a view on the
\* elements begin..end-1 that shares the storage of the array, a write
\* through either being seen by the other; with end omitted the view runs
\* from begin to the last element, and with both omitted it is the whole
\* array.
C25_SubarrayViews ==
    LET all(o) == TRUE
    IN  ViewsShare(all)

\* subarray(1) has been called on a Vec2Array of 2 elements, (1, 2) has been
\* set in element 0 of the view, and the array still holds zeros.
C25_Witness ==
    /\ cls = 2
    /\ Len(b) = 2
    /\ b[2].begin = JsNum(Num(1))
    /\ b[2].end = Undefined
    /\ last = Call("set", <<2, 0>> \o Nums(<<1, 2>>))
    /\ Contents(a, b[1].storage, 4) = <<Zero, Zero, Zero, Zero>>

\* The property of C25 for the programs whose views are of a Vec1Array or
\* are made with an end.
C25_ExceptOmittedEnd ==
    LET ended(o) == cls = 1 \/ o.end.k = "number"
    IN  ViewsShare(ended)


----------------------------------------------------------------------------
(***************************************************************************)
(* Specification SpecAll: addAll, subAll, mulAll and divAll. The program   *)
(* constructs two arrays of AllLen elements of cls components, the         *)
(* destination and a source, and a vector of cls components, and calls the *)
(* four methods on the destination with the source or the destination      *)
(* itself as b. a is the storage of the destination, b that of the source, *)
(* c that of the vector, and mat the three as they were before the last    *)
(* call. MaxAllCalls bounds the number of calls in a run.                  *)
(***************************************************************************)
AllLen == 2
MaxAllCalls == 2

\* b.storage[i] + c.storage[k], -, *, / : the value assigned by the method op.
AllOp(op, x, y) ==
    CASE op = "addAll" -> Add(x, y)
      [] op = "subAll" -> Sub(x, y)
      [] op = "mulAll" -> Mul(x, y)
      [] op = "divAll" -> Div(x, y)

\* An assignment that has no effect.
SlotSet_kept(storage, i, x) == storage

\* storage[i] = x : no effect beyond the end of the typed array.
SlotSet(storage, i, x) ==
    IF i < Len(storage) THEN [storage EXCEPT ![i + 1] = x] ELSE storage

RECURSIVE AllInner(_, _, _, _, _, _, _, _), AllOuter(_, _, _, _, _, _, _)
\* for(var k=0; k<c.storage.length; i++, k++), and the rest of the outer
\* loop when it is left. same tells that b is this; count is the number of
\* assignments made.
AllInner(op, this, bb, same, cc, i, k, count) ==
    IF k < Len(cc)
    THEN AllInner(op, SlotSet(this, i, AllOp(op, Slot(IF same THEN this ELSE bb, i), cc[k + 1])),
                  bb, same, cc, i + 1, k + 1, count + 1)
    ELSE AllOuter(op, this, bb, same, cc, i, count)

\* for(var i=0; i<this.storage.length;): the storage of this and the number
\* of assignments made when the loop is left.
AllOuter(op, this, bb, same, cc, i, count) ==
    IF i < Len(this)
    THEN AllInner(op, this, bb, same, cc, i, 0, count)
    ELSE [storage |-> this, count |-> count]

\* this.addAll(b, c), subAll, mulAll, divAll: the storage of this and the
\* number of assignments made.
VecArray_all(op, this, bb, same, cc) == AllOuter(op, this, bb, same, cc, 0, 0)

\* A storage holding the given integers.
Floats(ints) == [k \in DOMAIN ints |-> Num(ints[k])]

\* The storages of the source array and of the vector.
SourceArrays(n) ==
    {[s \in 1..(AllLen * n) |-> Num(s)], [s \in 1..(AllLen * n) |-> Num((s % 3) - 1)]}
SourceVectors(n) ==
    {SubSeq(p, 1, n) : p \in {Floats(<<5, 2, -1>>), Floats(<<0, 3, 2>>), Floats(<<2, 0, 1>>)}}

\* The storages before a call.
Before(dst, src, vec) == [dst |-> dst, src |-> src, vec |-> vec]

AllInit ==
    /\ cls \in 1..3
    /\ a = Float32Array(AllLen * cls)
    /\ b \in SourceArrays(cls)
    /\ c \in SourceVectors(cls)
    /\ mat = Before(a, b, c)
    /\ last = Call("new", <<>>)
    /\ steps = 0

\* dst.op(b, c) with b the source array, or dst itself when same holds.
AllCall(op) ==
    /\ steps < MaxAllCalls
    /\ \E same \in BOOLEAN :
          LET r == VecArray_all(op, a, b, same, c)
          IN  /\ a' = r.storage
              /\ last' = Call(op, <<same, r.count>>)
    /\ mat' = Before(a, b, c)
    /\ steps' = steps + 1
    /\ UNCHANGED <<cls, b, c>>

AddAll == AllCall("addAll")
SubAll == AllCall("subAll")
MulAll == AllCall("mulAll")
DivAll == AllCall("divAll")

AllNext == AddAll \/ SubAll \/ MulAll \/ DivAll

SpecAll == AllInit /\ [][AllNext]_vars

AllOps == {"addAll", "subAll", "mulAll", "divAll"}

----------------------------------------------------------------------------
(***************************************************************************)
(* Specification SpecDot: dotVec2s and dotVec3s of Vec1Array. The program  *)
(* constructs a Vec1Array of DotLen elements and two arrays of DotLen      *)
(* elements of cls components, Vec2Arrays or Vec3Arrays, scales the first  *)
(* of them and calls the method for their class on the Vec1Array. a is the *)
(* storage of the Vec1Array, b and c are those of the two arrays, and mat  *)
(* holds the three as they were before the last call. MaxDotCalls bounds   *)
(* the number of calls in a run.                                           *)
(***************************************************************************)
DotLen == 2
MaxDotCalls == 3

\* b.storage[j] * c.storage[j]
DotTerm(bb, cc, j) == Mul(Slot(bb, j), Slot(cc, j))

\* Vec1Array.prototype.dotVec2s(b, c): the storage of this. j is 2 * i when
\* element i is assigned, and every j++ follows the read of b.storage[j].
Vec1Array_dotVec2s(this, bb, cc) ==
    [s \in 1..Len(this) |->
        LET j == 2 * (s - 1)
        IN  Add(DotTerm(bb, cc, j), DotTerm(bb, cc, j + 1))]

\* The function first assigned to Vec1Array.prototype.dotVec3s, which the
\* second assignment replaces.
Vec1Array_dotVec3s_first(this, bb, cc) ==
    [s \in 1..Len(this) |->
        LET j == 3 * (s - 1)
        IN  Add(Add(DotTerm(bb, cc, j), DotTerm(bb, cc, j + 1)), DotTerm(bb, cc, j + 2))]

\* Vec1Array.prototype.dotVec3s(b, c): the storage of this, by the function
\* last assigned to the property, the one documented as dotVec4s.
Vec1Array_dotVec3s(this, bb, cc) ==
    [s \in 1..Len(this) |->
        LET j == 4 * (s - 1)
        IN  Add(Add(Add(DotTerm(bb, cc, j), DotTerm(bb, cc, j + 1)), DotTerm(bb, cc, j + 2)),
                DotTerm(bb, cc, j + 3))]

\* The storages of the arrays of n components.
DotArrays(n) ==
    {[s \in 1..(DotLen * n) |-> Num(s)],
     [s \in 1..(DotLen * n) |-> Num((s % 3) - 1)],
     [s \in 1..(DotLen * n) |-> Num(2 - s)]}

DotInit ==
    /\ cls \in {2, 3}
    /\ a = Float32Array(DotLen)
    /\ b \in DotArrays(cls)
    /\ c \in DotArrays(cls)
    /\ mat = Before(a, b, c)
    /\ last = Call("new", <<>>)
    /\ steps = 0

\* The call of op has left vals in the Vec1Array.
DotCall(op, vals) ==
    /\ a' = vals
    /\ mat' = Before(a, b, c)
    /\ last' = Call(op, <<>>)
    /\ steps' = steps + 1
    /\ UNCHANGED <<cls, b, c>>

\* dst.dotVec2s(b, c) with Vec2Arrays b and c
DotVec2s == steps < MaxDotCalls /\ cls = 2 /\ DotCall("dotVec2s", Vec1Array_dotVec2s(a, b, c))

\* dst.dotVec3s(b, c) with Vec3Arrays b and c
DotVec3s == steps < MaxDotCalls /\ cls = 3 /\ DotCall("dotVec3s", Vec1Array_dotVec3s(a, b, c))

\* b.scale(b, s)
DotScale ==
    /\ steps < MaxDotCalls
    /\ \E s \in {-1, 2} :
          /\ b' = VecArray_scale(b, b, Num(s))
          /\ last' = Call("scale", <<s>>)
    /\ mat' = Before(a, b, c)
    /\ steps' = steps + 1
    /\ UNCHANGED <<cls, a, c>>

DotNext == DotVec2s \/ DotVec3s \/ DotScale

SpecDot == DotInit /\ [][DotNext]_vars

RECURSIVE DotOfElement(_, _, _, _)
\* The sum of the products of the first n components of element i of the
\* storages bb and cc of arrays of cls components.
DotOfElement(bb, cc, i, n) ==
    IF n = 0 THEN Zero
    ELSE Add(DotOfElement(bb, cc, i, n - 1), Mul(bb[cls * i + n], cc[cls * i + n]))

\* What the methods among ops must have left: in element i of the
\* Vec1Array the dot product of the elements i of b and c, which are as
\* they were.
DotsStored(ops) ==
    last.op \in ops =>
        /\ Len(a) = DotLen
        /\ \A i \in 0..(DotLen - 1) : a[i + 1] = DotOfElement(mat.src, mat.vec, i, cls)
        /\ b = mat.src
        /\ c = mat.vec

\* C27: bulk dot products. After dst.dotVec3s(b, c) on a Vec1Array of
\* DotLen elements with Vec3Arrays b and c of DotLen elements, element i of
\* dst is b[3i]*c[3i] + b[3i+1]*c[3i+1] + b[3i+2]*c[3i+2]; dotVec2s does the
\* same for Vec2Arrays; b and c are unchanged.
C27_BulkDots == DotsStored({"dotVec2s", "dotVec3s"})

\* dotVec3s has been called with two Vec3Arrays holding 1..6 and has left
\* 1 + 4 + 9 + 16 in element 0 and NaN in element 1.
C27_Witness ==
    /\ cls = 3
    /\ last = Call("dotVec3s", <<>>)
    /\ b = [s \in 1..6 |-> Num(s)]
    /\ c = b
    /\ a = <<Num(30), NaN>>

\* The property of C27 for dotVec2s.
C27_DotVec2s == DotsStored({"dotVec2s"})


----------------------------------------------------------------------------
(***************************************************************************)
(* Specification SpecChain: what the in-place operations return. The       *)
(* program constructs a receiver x, a vector of cls components, a Mat4 or  *)
(* an array of two vectors of cls components, and evaluates a chain        *)
(* x.op(...).op(...): every call is made on the value the call before it   *)
(* returned. a is the storage of x, b its kind and the storage of an       *)
(* operand of its class, and c the value of the chain so far: x itself,    *)
(* undefined, or the TypeError thrown by a call on undefined. The first    *)
(* argument recorded in last is the value the call was made on.            *)
(* MaxChainCalls bounds the number of calls in a chain.                    *)
(***************************************************************************)
MaxChainCalls == 2

\* The object x as a value.
Receiver == [k |-> "object", is |-> "x"]

\* The exception of a call of a method of undefined.
Thrown == [k |-> "TypeError"]

\* VecArray.prototype.add(b, c): the storage of this.
VecArray_add(this, bb, cc) ==
    [s \in 1..Len(this) |-> Add(Slot(bb, s - 1), Slot(cc, s - 1))]

\* Vec2Array.prototype.normalize(b) and Vec3Array.prototype.normalize(b),
\* with k the components of an element: the storage of this.
VecArray_normalize(k, this, bb) ==
    [s \in 1..Len(this) |->
        LET i == k * ((s - 1) \div k)
            l2 == IF k = 2
                  THEN Add(Mul(Slot(bb, i), Slot(bb, i)), Mul(Slot(bb, i + 1), Slot(bb, i + 1)))
                  ELSE Add(Add(Mul(Slot(bb, i), Slot(bb, i)), Mul(Slot(bb, i + 1), Slot(bb, i + 1))),
                           Mul(Slot(bb, i + 2), Slot(bb, i + 2)))
            linv == Div(One, MathSqrt(l2))
        IN  Mul(Slot(bb, s - 1), linv)]

\* The receivers and operands, by kind.
ChainKinds == {"Vec", "Mat4", "Array"}

ChainStorages(kind, n) ==
    CASE kind = "Vec"   -> FrameReceivers(n)
      [] kind = "Mat4"  -> {Mat4_new(<<>>), Mat4Of(<<2, 0, 1, 0,  1, 1, 0, 1,  0, 3, 1, 0,  1, 0, 2, 2>>)}
      [] kind = "Array" -> {p \o q : p \in FrameReceivers(n), q \in FrameReceivers(n)}

ChainInit ==
    /\ \E kind \in ChainKinds :
          /\ cls \in (CASE kind = "Vec" -> 1..4 [] kind = "Mat4" -> {16} [] kind = "Array" -> 1..3)
          /\ a \in ChainStorages(kind, cls)
          /\ \E operand \in ChainStorages(kind, cls) : b = [kind |-> kind, operand |-> operand]
    /\ c = Receiver
    /\ mat = Mat4_new(<<>>)
    /\ last = Call("new", <<>>)
    /\ steps = 0

\* The next call of the chain is op, a method of the kind for the classes in
\* ns: made on x, it leaves vals in the storage of x and returns returned;
\* made on undefined, it throws.
Chained(kind, ns, op, vals, returned) ==
    /\ steps < MaxChainCalls
    /\ b.kind = kind
    /\ cls \in ns
    /\ c \in {Receiver, Undefined}
    /\ IF c = Receiver
       THEN a' = vals /\ c' = returned
       ELSE a' = a /\ c' = Thrown
    /\ last' = Call(op, <<c>>)
    /\ steps' = steps + 1
    /\ UNCHANGED <<cls, b, mat>>

\* The methods of Vec1 to Vec4; each ends with return this.
ChainSet == Chained("Vec", 1..4, "set", Vec_set(cls, a, <<VecObj(b.operand)>>), Receiver)
ChainAdd == Chained("Vec", 1..4, "add", Vec_add(cls, a, <<VecObj(b.operand)>>), Receiver)
ChainSub == Chained("Vec", 1..4, "sub", Vec_sub(cls, a, <<VecObj(b.operand)>>), Receiver)
ChainMul == Chained("Vec", 1..4, "mul", Vec_mul(cls, a, <<VecObj(b.operand)>>), Receiver)
ChainDiv == Chained("Vec", 1..4, "div", Vec_div(cls, a, <<VecObj(b.operand)>>), Receiver)
ChainNormalize == Chained("Vec", 2..4, "normalize", Vec_normalize(cls, a), Receiver)
ChainClamp == Chained("Vec", 1..4, "clamp", Vec_clamp(cls, a, Nums(<<0, 1>>)), Receiver)
ChainSetSum == Chained("Vec", 1..4, "setSum", Vec_setSum(cls, a, a, b.operand), Receiver)
ChainSetScaled == Chained("Vec", 1..4, "setScaled", Vec_setScaled(cls, a, b.operand, Num(2)), Receiver)

\* The methods of Mat4; each ends with return this.
ChainMatSet == Chained("Mat4", {16}, "set", Mat4_set(a, <<JsMat4(b.operand)>>), Receiver)
ChainMatMul == Chained("Mat4", {16}, "mul", Mat4_mul(a, b.operand), Receiver)
ChainMatPremul == Chained("Mat4", {16}, "premul", Mat4_premul(a, b.operand), Receiver)
ChainMatScale == Chained("Mat4", {16}, "scale", Mat4_scale(a, Nums(<<1, 2, 0>>)), Receiver)
ChainMatRotate == Chained("Mat4", {16}, "rotate", Mat4_rotate(a, "PI/2", <<Obj([x |-> 1])>>), Receiver)
ChainMatTranslate == Chained("Mat4", {16}, "translate", Mat4_translate(a, Nums(<<2, 3, 5>>)), Receiver)
ChainMatTranspose == Chained("Mat4", {16}, "transpose", Mat4_transpose(a), Receiver)
ChainMatInvert == Chained("Mat4", {16}, "invert", Mat4_invert(a), Receiver)

\* The bulk operations of the arrays; those of VecArray end with return
\* this, and normalize of Vec2Array and Vec3Array has no return statement.
ChainBulkAdd == Chained("Array", 1..3, "add", VecArray_add(a, a, b.operand), Receiver)
ChainBulkScale == Chained("Array", 1..3, "scale", VecArray_scale(a, a, Num(2)), Receiver)
ChainBulkClamp == Chained("Array", 1..3, "clamp", VecArray_clamp(a), Receiver)
ChainBulkAddAll ==
    Chained("Array", 1..3, "addAll",
            VecArray_all("addAll", a, a, TRUE, SubSeq(b.operand, 1, cls)).storage, Receiver)
ChainBulkNormalize ==
    Chained("Array", 2..3, "normalize", VecArray_normalize(cls, a, b.operand), Undefined)

ChainNext ==
    \/ ChainSet \/ ChainAdd \/ ChainSub \/ ChainMul \/ ChainDiv
    \/ ChainNormalize \/ ChainClamp \/ ChainSetSum \/ ChainSetScaled
    \/ ChainMatSet \/ ChainMatMul \/ ChainMatPremul \/ ChainMatScale
    \/ ChainMatRotate \/ ChainMatTranslate \/ ChainMatTranspose \/ ChainMatInvert
    \/ ChainBulkAdd \/ ChainBulkScale \/ ChainBulkClamp \/ ChainBulkAddAll
    \/ ChainBulkNormalize

SpecChain == ChainInit /\ [][ChainNext]_vars

\* The last call was normalize of an array.
BulkNormalized == b.kind = "Array" /\ last.op = "normalize"

\* C28: chaining. Every in-place operation made on the receiver - set, add,
\* sub, mul, div, normalize, clamp and setX of the vectors, set, mul,
\* premul, scale, rotate, translate, transpose and invert of Mat4, and the
\* bulk operations of the arrays, normalize of Vec2Array and Vec3Array
\* included - returns the receiver itself, so that no further call of the
\* chain is made on anything else.
C28_Chaining ==
    last.op # "new" => (last.args[1] = Receiver /\ c = Receiver)

\* array.normalize(b).scale(array, 2) has been evaluated on a Vec2Array: the
\* call of scale was made on undefined and has thrown.
C28_Witness ==
    /\ b.kind = "Array"
    /\ cls = 2
    /\ last = Call("scale", <<Undefined>>)
    /\ c = Thrown
    /\ steps = 2

\* The property of C28 for the operations other than normalize of
\* Vec2Array and Vec3Array: made on the receiver, they return it.
C28_ExceptBulkNormalize ==
    (last.op # "new" /\ last.args[1] = Receiver /\ ~BulkNormalized) => c = Receiver


----------------------------------------------------------------------------
(***************************************************************************)
(* Specification SpecCross: cross and setVectorProduct on Vec3 objects     *)
(* that may be one and the same. The program constructs three Vec3 and     *)
(* calls p.cross(q) and t.setVectorProduct(p, q) with any of the three as  *)
(* t, p and q. a is the sequence of the storages of the three, c the       *)
(* storage of the instance the last cross returned, and mat the storages   *)
(* as they were before the last call; last holds the positions of t, p and *)
(* q in a. MaxCrossCalls bounds the number of calls in a run.              *)
(***************************************************************************)
MaxCrossCalls == 2

\* heap[t].setVectorProduct(heap[p], heap[q]): the storages after the three
\* assignments, each reading the storages the one before it has left.
SetVectorProduct(heap, t, p, q) ==
    LET h1 == [heap EXCEPT ![t][1] = Sub(Mul(heap[p][2], heap[q][3]), Mul(heap[p][3], heap[q][2]))]
        h2 == [h1 EXCEPT ![t][2] = Sub(Mul(h1[p][3], h1[q][1]), Mul(h1[p][1], h1[q][3]))]
    IN  [h2 EXCEPT ![t][3] = Sub(Mul(h2[p][1], h2[q][2]), Mul(h2[p][2], h2[q][1]))]

\* The storages of the three vectors.
CrossVectors == {Floats(<<1, 0, 0>>), Floats(<<0, 1, 0>>), Floats(<<2, -3, 5>>)}

CrossInit ==
    /\ cls = 3
    /\ a \in [1..3 -> CrossVectors]
    /\ b = <<>>
    /\ c = Float32Array(3)
    /\ mat = a
    /\ last = Call("new", <<>>)
    /\ steps = 0

\* r = a[p].cross(a[q])
Cross ==
    /\ steps < MaxCrossCalls
    /\ \E p \in 1..3, q \in 1..3 :
          /\ c' = Vec3_cross(a[p], <<VecObj(a[q])>>)
          /\ last' = Call("cross", <<p, q>>)
    /\ mat' = a
    /\ steps' = steps + 1
    /\ UNCHANGED <<cls, a, b>>

\* a[t].setVectorProduct(a[p], a[q])
CrossSetVectorProduct ==
    /\ steps < MaxCrossCalls
    /\ \E t \in 1..3, p \in 1..3, q \in 1..3 :
          /\ a' = SetVectorProduct(a, t, p, q)
          /\ last' = Call("setVectorProduct", <<t, p, q>>)
    /\ mat' = a
    /\ steps' = steps + 1
    /\ UNCHANGED <<cls, b, c>>

CrossNext == Cross \/ CrossSetVectorProduct

SpecCross == CrossInit /\ [][CrossNext]_vars

\* What the last call must have left: the receiver of setVectorProduct
\* holds what b.cross(c) was before the call, for the calls that picked(t,
\* p, q) admits, and the result of cross is the negation of that of the
\* call with receiver and argument exchanged.
CrossesAgree(picked(_, _, _)) ==
    /\ last.op = "setVectorProduct" =>
          LET t == last.args[1]  p == last.args[2]  q == last.args[3]
          IN  picked(t, p, q) => a[t] = Vec3_cross(mat[p], <<VecObj(mat[q])>>)
    /\ last.op = "cross" =>
          LET p == last.args[1]  q == last.args[2]
              reverse == Vec3_cross(a[q], <<VecObj(a[p])>>)
          IN  c = [i \in 1..3 |-> Neg(reverse[i])]

\* C29: the fast cross product equals the allocating one for every
\* receiver. After a.setVectorProduct(b, c), a holds the components that
\* b.cross(c) had before the call, also when a is the same object as b or
\* as c; and b.cross(c) is the negation of c.cross(b).
C29_FastCross ==
    LET any(t, p, q) == TRUE
    IN  CrossesAgree(any)

\* a.setVectorProduct(a, c) has been called with a = (1, 0, 0) and
\* c = (0, 1, 0) and has left (0, 0, 0) in a.
C29_Witness ==
    /\ last = Call("setVectorProduct", <<1, 1, 2>>)
    /\ mat[1] = Floats(<<1, 0, 0>>)
    /\ mat[2] = Floats(<<0, 1, 0>>)
    /\ a[1] = Floats(<<0, 0, 0>>)

\* The property of C29 for a receiver that is neither of the operands.
C29_ExceptAliasedReceiver ==
    LET apart(t, p, q) == t \notin {p, q}
    IN  CrossesAgree(apart)


----------------------------------------------------------------------------
(***************************************************************************)
(* Specification SpecTextureArray: Sampler2DArrayTextureArray. The program *)
(* constructs an array of cls samplers and calls set and commit on it in   *)
(* any order. a is the array: the fields the constructor assigns, length   *)
(* and storage, and elements, the glTexture of every element this[i]. b is *)
(* the call sequence of the rendering context, c the array last passed to  *)
(* set (empty before the first) and mat the base texture unit of the last  *)
(* commit. MaxSamplers, MaxBase and MaxTextureOps bound the size, the base *)
(* unit and the number of calls in a run.                                  *)
(***************************************************************************)
MaxSamplers == 2
MaxBase == 1
MaxTextureOps == 3

\* new Sampler2DArrayTextureArray(size, baseTextureUnit): length and an
\* Int32Array(size) of zeros; every element has glTexture null.
Sampler2DArrayTextureArray_new(size) ==
    [length   |-> size,
     storage  |-> [i \in 1..size |-> 0],
     elements |-> [i \in 1..size |-> Null]]

\* this.size: the constructor assigns no such property.
SizeProperty(this) ==
    IF "size" \in DOMAIN this THEN JsNum(Num(this.size)) ELSE Undefined

\* this.set(textureArray): for(let i=0; i<this.size; i++) assigns
\* textureArray[Math.min(i, textureArray.length)] to element i, the index
\* textureArray.length reading undefined.
Sampler2DArrayTextureArray_set(this, textureArray) ==
    [this EXCEPT !.elements =
        [i \in 1..this.length |->
            IF Lt(Num(i - 1), ToNumber(SizeProperty(this)))
            THEN (IF i - 1 < Len(textureArray) THEN AssignedTexture(textureArray[i])
                  ELSE AssignedTexture(Undefined))
            ELSE this.elements[i]]]

\* this.storage after the loop of commit.
UnitsFrom(this, baseTextureUnit) == [i \in 1..this.length |-> baseTextureUnit + i - 1]

RECURSIVE BindUnits(_, _, _)
\* The calls of the loop of commit from element i on.
BindUnits(this, baseTextureUnit, i) ==
    IF i > this.length THEN <<>>
    ELSE <<GlCall("activeTexture", <<JsNum(Num(baseTextureUnit + i - 1))>>),
           GlCall("bindTexture", <<"TEXTURE_2D_ARRAY", this.elements[i]>>)>>
         \o BindUnits(this, baseTextureUnit, i + 1)

\* this.commit(gl, uniformLocation, baseTextureUnit): the array and the
\* context afterwards.
Sampler2DArrayTextureArray_commit(this, gl, uniformLocation, baseTextureUnit) ==
    [this |-> [this EXCEPT !.storage = UnitsFrom(this, baseTextureUnit)],
     gl   |-> gl \o BindUnits(this, baseTextureUnit, 1)
                 \o <<GlCall("uniform1iv", <<uniformLocation, UnitsFrom(this, baseTextureUnit)>>)>>]

\* The textures of an application: handles, and objects holding one.
Handles == {WebGLTexture(1), WebGLTexture(2), Texture(WebGLTexture(3))}

\* The arrays passed to set: as many textures as samplers, or one more.
TextureArrays(n) == UNION {[1..m -> Handles] : m \in n..(n + 1)}

TextureArrayInit ==
    /\ cls \in 1..MaxSamplers
    /\ a = Sampler2DArrayTextureArray_new(cls)
    /\ b = <<>>
    /\ c = <<>>
    /\ mat = 0
    /\ last = Call("new", <<cls>>)
    /\ steps = 0

\* array.set(textureArray)
TextureArraySet ==
    /\ steps < MaxTextureOps
    /\ \E textureArray \in TextureArrays(cls) :
          /\ a' = Sampler2DArrayTextureArray_set(a, textureArray)
          /\ c' = textureArray
          /\ last' = Call("set", <<>>)
    /\ steps' = steps + 1
    /\ UNCHANGED <<cls, b, mat>>

\* array.commit(gl, uniformLocation, baseTextureUnit)
TextureArrayCommit ==
    /\ steps < MaxTextureOps
    /\ \E uniformLocation \in Locations, baseTextureUnit \in 0..MaxBase :
          LET outcome == Sampler2DArrayTextureArray_commit(a, b, uniformLocation, baseTextureUnit)
          IN  /\ a' = outcome.this
              /\ b' = outcome.gl
              /\ mat' = baseTextureUnit
              /\ last' = Call("commit", <<uniformLocation>>)
    /\ steps' = steps + 1
    /\ UNCHANGED <<cls, c>>

TextureArrayNext == TextureArraySet \/ TextureArrayCommit

SpecTextureArray == TextureArrayInit /\ [][TextureArrayNext]_vars

\* The texture of an element of the array passed to set: the handle, or the
\* glTexture of the object holding it.
HandleOf(texture) == IF texture.k = "object" THEN texture.f.glTexture ELSE texture

\* After a commit that follows a set, the context has last been called, for
\* every element in turn, to activate unit base + i and to bind a texture
\* to it - the one set has been given for the element, when textured - and
\* then once to upload the units, which the storage holds.
CommittedInOrder(textured) ==
    (last.op = "commit" /\ c # <<>>) =>
        LET n == cls
            from == Len(b) - (2 * n + 1)
        IN  /\ from >= 0
            /\ \A i \in 0..(n - 1) :
                  /\ b[from + 2 * i + 1] = GlCall("activeTexture", <<JsNum(Num(mat + i))>>)
                  /\ b[from + 2 * i + 2].f = "bindTexture"
                  /\ b[from + 2 * i + 2].args[1] = "TEXTURE_2D_ARRAY"
                  /\ textured => b[from + 2 * i + 2].args[2] = HandleOf(c[i + 1])
                  /\ a.storage[i + 1] = mat + i
            /\ b[Len(b)] = GlCall("uniform1iv", <<last.args[1], a.storage>>)

\* C30: sampler array assignment and commit order. After set(textures) with
\* at least as many textures as the array has samplers, followed by
\* commit(gl, location, base), for every i unit base + i has been activated
\* and textures[i], or its glTexture, bound to it; storage[i] is base + i;
\* and the units have been uploaded to the location once, after all the
\* bindings.
C30_SetThenCommit == CommittedInOrder(TRUE)

\* set has been called with two handles on an array of two samplers, and
\* commit with base unit 1 has bound null to the units 1 and 2.
C30_Witness ==
    /\ cls = 2
    /\ c = <<WebGLTexture(1), WebGLTexture(2)>>
    /\ last = Call("commit", <<"location1">>)
    /\ b = <<GlCall("activeTexture", <<JsNum(Num(1))>>),
             GlCall("bindTexture", <<"TEXTURE_2D_ARRAY", Null>>),
             GlCall("activeTexture", <<JsNum(Num(2))>>),
             GlCall("bindTexture", <<"TEXTURE_2D_ARRAY", Null>>),
             GlCall("uniform1iv", <<"location1", <<1, 2>>>>)>>

\* The property of C30 but for the textures bound.
C30_ExceptTextures == CommittedInOrder(FALSE)

====
